---- MODULE Spec2Model ----
(***************************************************************************)
(* A model of the GenSphere workflow engine: the flow composer             *)
(* (YmlCompose, yml_compose.py) that flattens nested YAML flow documents   *)
(* into one node list, and the execution engine (GenFlow / Node,           *)
(* GenFlow.py) that builds the dependency graph of that list and runs the  *)
(* nodes in topological order.  The legacy executor (AgenticFlow,          *)
(* AgenticFlow.py) is modelled next to them as the record agentic.         *)
(*                                                                         *)
(* Strings of the program are TLA+ strings; `\o' is Python's `+' on them.  *)
(* A YAML value is a tagged record:                                        *)
(*   [k |-> "tmpl", parts |-> <<token, ...>>]   a YAML string, cut at its  *)
(*        `{{ ref }}' occurrences into text tokens and reference tokens    *)
(*   [k |-> "int", n |-> 5]   [k |-> "none"]   [k |-> "list", items |-> s] *)
(* and a run-time value is one of these or                                 *)
(*   [k |-> "str", s |-> "text"]     [k |-> "dict", d |-> [key |-> value]] *)
(* ([k |-> "undefined"] is jinja2's Undefined while a template renders).   *)
(***************************************************************************)
EXTENDS Naturals, Sequences, FiniteSets, TLC

VARIABLES
    phase,              \* where the driver is: compose -> parse_yaml -> run
    root,               \* the root flow document (its 'nodes' list)
    combined,           \* YmlCompose.combined_data['nodes']
    node_name_set,      \* YmlCompose.node_name_set
    error,              \* the exception that ended composing or graph building
    nodes,              \* GenFlow.nodes, in insertion order
    variable_producers, \* GenFlow.variable_producers
    edges,              \* GenFlow.graph's edges, <<producer, consumer>>
    execution_order,    \* run(): list(nx.topological_sort(graph))
    pc,                 \* run(): index of the next node of execution_order
    outputs,            \* GenFlow.outputs
    variables,          \* GenFlow.variables
    attempted,          \* history: node names in the order run() took them
    status,             \* history: how each attempted node ended
    dispatched,         \* history: the params each node was executed with
    returned,           \* run(): the node of the latest iteration and what the
                        \* outside world answered when the node called it
    runs,               \* how many times run() was called on the GenFlow
    agentic             \* the legacy AgenticFlow object (AgenticFlow.py), its
                        \* YAML document and the position of its execute()

\* The variables of the composer and of GenFlow.
engine == <<phase, root, combined, node_name_set, error, nodes,
            variable_producers, edges, execution_order, pc, outputs,
            variables, attempted, status, dispatched, returned, runs>>

vars == <<phase, root, combined, node_name_set, error, nodes,
          variable_producers, edges, execution_order, pc, outputs,
          variables, attempted, status, dispatched, returned, runs, agentic>>

(***************************************************************************)
(* Bounds of the model.                                                    *)
(***************************************************************************)
MaxNodes == 3       \* longest root document
MaxDepth == 3       \* deepest nesting of _process_yaml_file calls
MaxRuns == 2        \* most calls of run() on one GenFlow

(***************************************************************************)
(* Generic helpers.                                                        *)
(***************************************************************************)
Range(s) == {s[i] : i \in DOMAIN s}

EmptyMap == [x \in {} |-> 0]

\* Python's d[k] = v on a dict held as a TLA+ function.
Put(d, k, v) == [x \in DOMAIN d \cup {k} |-> IF x = k THEN v ELSE d[x]]

\* Python's list.index for an element known to be in the list.
IndexOf(s, e) == CHOOSE i \in DOMAIN s : s[i] = e /\ \A j \in 1..(i - 1) : s[j] # e

NoDup(s) == \A i, j \in DOMAIN s : i # j => s[i] # s[j]

(***************************************************************************)
(* YAML values and run-time values.                                        *)
(***************************************************************************)
Txt(s)      == [t |-> "txt", s |-> s]
Ref(path)   == [t |-> "ref", path |-> path]
Tmpl(parts) == [k |-> "tmpl", parts |-> parts]
YInt(n)     == [k |-> "int", n |-> n]
YNone       == [k |-> "none"]
YList(items) == [k |-> "list", items |-> items]
VStr(s)     == [k |-> "str", s |-> s]
VDict(d)    == [k |-> "dict", d |-> d]

\* A whole-value reference "{{ a.b }}" and a reference inside text.
Whole(path) == Tmpl(<<Ref(path)>>)

\* One entry of a YAML mapping (Python dicts keep insertion order).
KV(key, val) == [key |-> key, val |-> val]

\* dict.get(key) on a list of entries; YNone when the key is absent.
Lookup(entries, key) ==
    IF \E i \in DOMAIN entries : entries[i].key = key
    THEN entries[CHOOSE i \in DOMAIN entries : entries[i].key = key].val
    ELSE YNone

(***************************************************************************)
(* A node description (node_data).  A field the document leaves out is ""  *)
(* (name, variable_name, yml_file) or empty (params, outputs, variables,   *)
(* dependencies).                                                          *)
(***************************************************************************)
NodeData(name, type, params, outs) ==
    [name |-> name, type |-> type, params |-> params, outputs |-> outs,
     variable_name |-> "", variables |-> <<>>, yml_file |-> "",
     service |-> "", function_call |-> FALSE, dependencies |-> <<>>]

FunctionCall(name, params, outs) == NodeData(name, "function_call", params, outs)

SetVariable(name, var, value, outs) ==
    [NodeData(name, "set_variable", <<KV("value", value)>>, outs)
        EXCEPT !.variable_name = var]

GetVariable(name, var, outs) ==
    [NodeData(name, "get_variable", <<>>, outs) EXCEPT !.variable_name = var]

GetVariables(name, mapping, outs) ==
    [NodeData(name, "get_variables", <<>>, outs) EXCEPT !.variables = mapping]

YmlFlow(name, file, params, outs) ==
    [NodeData(name, "yml_flow", params, outs) EXCEPT !.yml_file = file]

\* A node that calls the completion service, with the tool protocol
\* (function_call given) or without it.
LlmService(name, params, outs, function_call) ==
    [NodeData(name, "llm_service", params, outs)
        EXCEPT !.service = "openai", !.function_call = function_call]

\* A node description that also carries a 'dependencies' list.
WithDependencies(node_data, deps) == [node_data EXCEPT !.dependencies = deps]

(***************************************************************************)
(* The documents on disk.  The root document is the input (the variable    *)
(* root); the sub-flow documents it can name are fixed:                    *)
(*   inner.yml  stores its parameter q as its output variable r;           *)
(*   outer.yml  calls function b on its parameter p, hands b's output to   *)
(*              inner.yml and stores inner's r as its output variable o;   *)
(*   list.yml   calls function d and passes a list holding a reference to  *)
(*              d's output to function c;                                  *)
(*   mid.yml    calls function g and then low.yml;                         *)
(*   low.yml    calls function h on g's output, which it names in full as  *)
(*              its caller M wrote it (M__g), and on the output of the     *)
(*              root's step A;                                             *)
(*   bad.yml    has a step without a name after a good one;                *)
(*   twice.yml  has two steps of the same name;                            *)
(*   nofile.yml has a sub-flow step without a yml_file field;              *)
(*   gone.yml   calls a file that does not exist;                          *)
(*   loop.yml   calls itself; ping.yml calls pong.yml, which calls         *)
(*              ping.yml.                                                  *)
(***************************************************************************)
RootFile == "root.yml"

InnerNodes ==
    << SetVariable("store", "r", Whole(<<"q">>), <<>>) >>

OuterNodes ==
    << FunctionCall("b", <<KV("x", Whole(<<"p">>))>>, <<"out">>),
       YmlFlow("in", "inner.yml", <<KV("q", Whole(<<"b", "out">>))>>, <<"r">>),
       SetVariable("keep", "o", Whole(<<"in", "r">>), <<>>) >>

ListNodes ==
    << FunctionCall("d", <<>>, <<"out">>),
       FunctionCall("c", <<KV("xs", YList(<<Whole(<<"d", "out">>)>>))>>, <<"out">>) >>

MidNodes ==
    << FunctionCall("g", <<>>, <<"out">>),
       YmlFlow("low", "low.yml", <<>>, <<>>) >>

LowNodes ==
    << FunctionCall("h", <<KV("x", Whole(<<"M__g", "out">>)),
                          KV("y", Whole(<<"A", "result">>))>>, <<"out">>) >>

BadNodes ==
    << FunctionCall("k", <<>>, <<"out">>),
       FunctionCall("", <<>>, <<"out">>) >>

TwiceNodes ==
    << FunctionCall("t", <<>>, <<"out">>),
       FunctionCall("t", <<>>, <<"out">>) >>

NoFileNodes ==
    << YmlFlow("z", "", <<>>, <<>>) >>

GoneNodes ==
    << YmlFlow("g", "missing.yml", <<>>, <<>>) >>

LoopNodes ==
    << FunctionCall("w", <<>>, <<"out">>),
       YmlFlow("again", "loop.yml", <<>>, <<>>) >>

PingNodes ==
    << YmlFlow("to", "pong.yml", <<>>, <<>>) >>

PongNodes ==
    << YmlFlow("fro", "ping.yml", <<>>, <<>>) >>

SubFiles == [f \in {"inner.yml", "outer.yml", "list.yml", "mid.yml", "low.yml",
                    "bad.yml", "twice.yml", "nofile.yml", "gone.yml", "loop.yml",
                    "ping.yml", "pong.yml"} |->
                CASE f = "inner.yml" -> InnerNodes
                  [] f = "outer.yml" -> OuterNodes
                  [] f = "list.yml" -> ListNodes
                  [] f = "mid.yml" -> MidNodes
                  [] f = "low.yml" -> LowNodes
                  [] f = "bad.yml" -> BadNodes
                  [] f = "twice.yml" -> TwiceNodes
                  [] f = "nofile.yml" -> NoFileNodes
                  [] f = "gone.yml" -> GoneNodes
                  [] f = "loop.yml" -> LoopNodes
                  [] f = "ping.yml" -> PingNodes
                  [] f = "pong.yml" -> PongNodes]

FileExists(rootDoc, f) == f = RootFile \/ f \in DOMAIN SubFiles

FileNodes(rootDoc, f) == IF f = RootFile THEN rootDoc ELSE SubFiles[f]

(***************************************************************************)
(* YmlCompose.  The composer's state while it runs is the record           *)
(*   [nodes |-> combined_data['nodes'], names |-> node_name_set, err |-> e]*)
(* with err = "" until an exception is raised; a raised exception ends the *)
(* whole composition, so every operator passes a failed state through.     *)
(***************************************************************************)
Sep == "__"

\* Mutant of NameTaken: the collision check left out.
NameTakenNever(name, names) == FALSE

\* "if <name> in self.node_name_set": the collision check of every insertion.
NameTaken(name, names) == name \in names

\* Mutant of NameMissing: a node without a name is taken as it is.
NameMissingNever(node_data) == FALSE

\* "if not node_name"
NameMissing(node_data) == node_data.name = ""

\* Mutant of SubFlowPrefix: the separator left out.
SubFlowPrefixNoSeparator(unique_node_name) == unique_node_name

\* The prefix of the nodes of the sub-flow that node unique_node_name calls.
SubFlowPrefix(unique_node_name) == unique_node_name \o Sep

\* _adjust_params.replace_func on one reference: prefix its first part.
ReplaceFunc(path, parent_prefix, names) ==
    LET first_part == Head(path)
        rest_parts == Tail(path)
        adjusted_first_part ==
            IF (parent_prefix \o first_part) \in names
            THEN parent_prefix \o first_part
            ELSE parent_prefix \o first_part
    IN  <<adjusted_first_part>> \o rest_parts

\* re.sub(pattern, replace_func, value) on a YAML string.
AdjustString(value, parent_prefix, names) ==
    Tmpl([i \in DOMAIN value.parts |->
            IF value.parts[i].t = "ref"
            THEN Ref(ReplaceFunc(value.parts[i].path, parent_prefix, names))
            ELSE value.parts[i]])

\* _adjust_params: only a value that is itself a string is rewritten.
AdjustParams(params, parent_prefix, names) ==
    [i \in DOMAIN params |->
        IF params[i].val.k = "tmpl"
        THEN KV(params[i].key, AdjustString(params[i].val, parent_prefix, names))
        ELSE params[i]]

\* The else branch of _process_yaml_file: an ordinary node, copied and prefixed.
AdjustNode(node_data, unique_node_name, parent_prefix, names) ==
    LET n1 == [node_data EXCEPT
                 !.name = unique_node_name,
                 !.params = AdjustParams(node_data.params, parent_prefix, names)]
        n2 == IF node_data.type \in {"set_variable", "get_variable"}
                 /\ node_data.variable_name # ""
              THEN [n1 EXCEPT !.variable_name = parent_prefix \o node_data.variable_name]
              ELSE n1
    IN  IF node_data.type = "get_variables"
        THEN [n2 EXCEPT !.variables =
                [i \in DOMAIN node_data.variables |->
                    KV(node_data.variables[i].key,
                       parent_prefix \o node_data.variables[i].val)]]
        ELSE n2

\* One injection node of _create_param_injection_nodes.
InjectionNode(sub_flow_prefix, param) ==
    SetVariable(sub_flow_prefix \o "inject_param_" \o param.key,
                sub_flow_prefix \o param.key, param.val, <<>>)

RECURSIVE CreateParamInjectionNodes(_, _, _, _)
\* _create_param_injection_nodes, from the i-th parameter on; the nodes are
\* appended to st.nodes as the caller's extend() does.
CreateParamInjectionNodes(node_data, sub_flow_prefix, st, i) ==
    IF st.err # "" \/ i > Len(node_data.params) THEN st
    ELSE LET inj == InjectionNode(sub_flow_prefix, node_data.params[i])
         IN  IF NameTaken(inj.name, st.names)
             THEN [st EXCEPT !.err = "Duplicate injection node name"]
             ELSE CreateParamInjectionNodes(node_data, sub_flow_prefix,
                    [st EXCEPT !.names = @ \cup {inj.name},
                               !.nodes = Append(@, inj)], i + 1)

\* Mutant of CreateOutputExtractionNode: the sub-flow step itself is put in
\* the list under its unique name.
KeepSubFlowNode(node_data, sub_flow_prefix, parent_node_name) ==
    [node_data EXCEPT !.name = parent_node_name]

\* _create_output_extraction_node
CreateOutputExtractionNode(node_data, sub_flow_prefix, parent_node_name) ==
    GetVariables(parent_node_name,
                 [i \in DOMAIN node_data.outputs |->
                    KV(node_data.outputs[i], sub_flow_prefix \o node_data.outputs[i])],
                 node_data.outputs)

RECURSIVE ProcessYamlFile(_, _, _, _, _)
RECURSIVE ProcessNodes(_, _, _, _, _, _)

\* The body of the loop of _process_yaml_file for one node.
ProcessNode(rootDoc, node_data, parent_prefix, st, depth) ==
    LET unique_node_name == parent_prefix \o node_data.name
        st1 == [st EXCEPT !.names = @ \cup {unique_node_name}]
    IN  IF NameMissing(node_data)
        THEN [st EXCEPT !.err = "A node without a name"]
        ELSE IF NameTaken(unique_node_name, st.names)
        THEN [st EXCEPT !.err = "Duplicate node name"]
        ELSE IF node_data.type = "yml_flow"
        THEN IF node_data.yml_file = ""
             THEN [st1 EXCEPT !.err = "yml_flow without yml_file"]
             ELSE LET sub_flow_prefix == SubFlowPrefix(unique_node_name)
                      sub == ProcessYamlFile(rootDoc, node_data.yml_file,
                                             sub_flow_prefix, st1, depth + 1)
                      inj == CreateParamInjectionNodes(node_data, sub_flow_prefix, sub, 1)
                  IN  IF inj.err # "" THEN inj
                      ELSE [inj EXCEPT !.nodes =
                              Append(@, CreateOutputExtractionNode(
                                          node_data, sub_flow_prefix, unique_node_name))]
        ELSE [st1 EXCEPT !.nodes =
                Append(@, AdjustNode(node_data, unique_node_name, parent_prefix,
                                     st1.names))]

ProcessNodes(rootDoc, yaml_file, parent_prefix, st, i, depth) ==
    IF st.err # "" \/ i > Len(FileNodes(rootDoc, yaml_file)) THEN st
    ELSE ProcessNodes(rootDoc, yaml_file, parent_prefix,
            ProcessNode(rootDoc, FileNodes(rootDoc, yaml_file)[i], parent_prefix, st, depth),
            i + 1, depth)

\* _process_yaml_file(yaml_file, parent_prefix)
ProcessYamlFile(rootDoc, yaml_file, parent_prefix, st, depth) ==
    IF st.err # "" THEN st
    ELSE IF depth > MaxDepth THEN [st EXCEPT !.err = "RecursionError"]
    ELSE IF ~FileExists(rootDoc, yaml_file)
    THEN [st EXCEPT !.err = "YAML file does not exist"]
    ELSE ProcessNodes(rootDoc, yaml_file, parent_prefix, st, 1, depth)

\* compose(): a fresh YmlCompose processes the root file with an empty prefix.
ComposeResult(rootDoc) ==
    ProcessYamlFile(rootDoc, RootFile, "", [nodes |-> <<>>, names |-> {}, err |-> ""], 1)

(***************************************************************************)
(* GenFlow.parse_yaml and build_graph.                                     *)
(***************************************************************************)
RECURSIVE ExtractDependenciesFromValue(_)
\* Node.extract_dependencies_from_value: the first part of every reference
\* found in str(value), so references inside a list are found too.
ExtractDependenciesFromValue(value) ==
    CASE value.k = "tmpl" ->
            {Head(value.parts[i].path) :
                i \in {j \in DOMAIN value.parts : value.parts[j].t = "ref"}}
      [] value.k = "list" ->
            UNION {ExtractDependenciesFromValue(value.items[i]) : i \in DOMAIN value.items}
      [] OTHER -> {}

\* Python's truth value of a YAML value ("if value:").
Truthy(value) ==
    CASE value.k = "none" -> FALSE
      [] value.k = "int" -> value.n # 0
      [] value.k = "tmpl" ->
            \E i \in DOMAIN value.parts :
                value.parts[i].t = "ref" \/ value.parts[i].s # ""
      [] value.k = "list" -> value.items # <<>>
      [] OTHER -> TRUE

\* Node.get_dependencies: the references of the params, and the fields of
\* the two node types it has a case for.  No other field of node_data is read.
GetDependencies(node) ==
    LET fromParams ==
            UNION {ExtractDependenciesFromValue(node.params[i].val) : i \in DOMAIN node.params}
    IN  IF node.type = "get_variables"
        THEN fromParams \cup {node.variables[i].val : i \in DOMAIN node.variables}
        ELSE IF node.type = "set_variable" /\ Truthy(Lookup(node.params, "value"))
        THEN fromParams \cup ExtractDependenciesFromValue(Lookup(node.params, "value"))
        ELSE fromParams

\* Mutant of GetProducedVariables: no node reports a variable.
GetProducedVariablesNone(node) == <<>>

\* Node.get_produced_variables
GetProducedVariables(node) ==
    IF node.type = "set_variable" THEN <<node.variable_name>> ELSE <<>>

RECURSIVE ParseNodes(_, _, _)
\* The loop of parse_yaml from the i-th node on; g is
\* [nodes, variable_producers, edges, err].
ParseNodes(data, g, i) ==
    IF g.err # "" \/ i > Len(data) THEN g
    ELSE LET node == data[i]
         IN  IF node.name \in {g.nodes[j].name : j \in DOMAIN g.nodes}
             THEN [g EXCEPT !.err = "Duplicate node name"]
             ELSE IF node.type = "set_variable" /\ node.variable_name = ""
             THEN [g EXCEPT !.nodes = Append(@, node), !.err = "KeyError variable_name"]
             ELSE IF \E v \in Range(GetProducedVariables(node)) :
                        v \in DOMAIN g.variable_producers
             THEN [g EXCEPT !.nodes = Append(@, node),
                            !.err = "Variable is set by multiple nodes"]
             ELSE ParseNodes(data,
                    [g EXCEPT !.nodes = Append(@, node),
                              !.variable_producers =
                                 IF node.type = "set_variable"
                                 THEN Put(@, node.variable_name, node.name)
                                 ELSE @],
                    i + 1)

NodeNames(ns) == {ns[i].name : i \in DOMAIN ns}

\* The edge build_graph adds for one dependency of one node.
EdgeFor(dep, node, ns, producers) ==
    IF dep \in NodeNames(ns) THEN <<dep, node.name>>
    ELSE <<producers[dep], node.name>>

Undefined(dep, ns, producers) ==
    dep \notin NodeNames(ns) /\ dep \notin DOMAIN producers

\* nx.topological_sort(graph), as networkx computes it from
\* topological_generations: Kahn's algorithm generation by generation.  order
\* is the graph's node order (insertion order, here declaration order), E its
\* edge set; a node's children come in the order their edges were added,
\* which build_graph makes the declaration order of the consumers.
InDegree(n, E) == Cardinality({e \in E : e[2] = n})

Neighbors(n, order, E) ==
    LET IsChild(c) == <<n, c>> \in E
    IN  SelectSeq(order, IsChild)

RECURSIVE ThisGeneration(_, _, _, _, _, _)
\* One pass over this_generation from its i-th node on: lower the in-degree
\* of every child, and queue the children whose in-degree reaches zero.
ThisGeneration(gen, i, indegree_map, zero_indegree, order, E) ==
    IF i > Len(gen) THEN [indegree_map |-> indegree_map, zero_indegree |-> zero_indegree]
    ELSE LET children == Neighbors(gen[i], order, E)
             lowered == [c \in DOMAIN indegree_map |->
                            IF c \in Range(children) /\ indegree_map[c] > 0
                            THEN indegree_map[c] - 1 ELSE indegree_map[c]]
             IsFreed(c) == indegree_map[c] > 0 /\ lowered[c] = 0
         IN  ThisGeneration(gen, i + 1, lowered,
                            zero_indegree \o SelectSeq(children, IsFreed), order, E)

RECURSIVE TopologicalGenerations(_, _, _, _, _)
TopologicalGenerations(zero_indegree, indegree_map, sorted, order, E) ==
    IF zero_indegree = <<>>
    THEN [order |-> sorted, unfeasible |-> \E c \in DOMAIN indegree_map : indegree_map[c] > 0]
    ELSE LET pass == ThisGeneration(zero_indegree, 1, indegree_map, <<>>, order, E)
         IN  TopologicalGenerations(pass.zero_indegree, pass.indegree_map,
                                    sorted \o zero_indegree, order, E)

\* Mutant of TopologicalSort: the nodes in declaration order, unsorted.
TopologicalSortDeclared(order, E) == [order |-> order, unfeasible |-> FALSE]

TopologicalSort(order, E) ==
    LET indegree_map == [n \in Range(order) |-> InDegree(n, E)]
        IsZero(n) == indegree_map[n] = 0
    IN  TopologicalGenerations(SelectSeq(order, IsZero), indegree_map, <<>>, order, E)

\* nx.is_directed_acyclic_graph(graph)
IsDirectedAcyclicGraph(order, E) == ~TopologicalSort(order, E).unfeasible

\* Mutant of BuildGraph: the cycle check left out.
BuildGraphNoCycleCheck(g) ==
    LET deps(i) == GetDependencies(g.nodes[i])
        E == UNION {{EdgeFor(dep, g.nodes[i], g.nodes, g.variable_producers) :
                        dep \in deps(i)} : i \in DOMAIN g.nodes}
    IN  IF \E i \in DOMAIN g.nodes : \E dep \in deps(i) :
                Undefined(dep, g.nodes, g.variable_producers)
        THEN [g EXCEPT !.err = "depends on undefined node or variable"]
        ELSE [g EXCEPT !.edges = E]

\* Mutant of BuildGraph: an undefined dependency is skipped, not reported.
BuildGraphNoUndefinedCheck(g) ==
    LET deps(i) == {dep \in GetDependencies(g.nodes[i]) :
                       ~Undefined(dep, g.nodes, g.variable_producers)}
        E == UNION {{EdgeFor(dep, g.nodes[i], g.nodes, g.variable_producers) :
                        dep \in deps(i)} : i \in DOMAIN g.nodes}
        order == [i \in DOMAIN g.nodes |-> g.nodes[i].name]
    IN  IF ~IsDirectedAcyclicGraph(order, E)
        THEN [g EXCEPT !.edges = E, !.err = "The execution graph has cycles"]
        ELSE [g EXCEPT !.edges = E]

\* build_graph on the parsed nodes.  An undefined dependency raises before the
\* cycle check; the half-built graph is lost with the exception.
BuildGraph(g) ==
    LET deps(i) == GetDependencies(g.nodes[i])
        E == UNION {{EdgeFor(dep, g.nodes[i], g.nodes, g.variable_producers) :
                        dep \in deps(i)} : i \in DOMAIN g.nodes}
        order == [i \in DOMAIN g.nodes |-> g.nodes[i].name]
    IN  IF \E i \in DOMAIN g.nodes : \E dep \in deps(i) :
                Undefined(dep, g.nodes, g.variable_producers)
        THEN [g EXCEPT !.err = "depends on undefined node or variable"]
        ELSE IF ~IsDirectedAcyclicGraph(order, E)
        THEN [g EXCEPT !.edges = E, !.err = "The execution graph has cycles"]
        ELSE [g EXCEPT !.edges = E]

\* parse_yaml(): a fresh GenFlow parses the node list and builds the graph.
ParseYaml(data) ==
    LET g == ParseNodes(data, [nodes |-> <<>>, variable_producers |-> EmptyMap,
                               edges |-> {}, err |-> ""], 1)
    IN  IF g.err # "" THEN g ELSE BuildGraph(g)

(***************************************************************************)
(* Python's str() and repr() of a value, as jinja2 writes a value into a   *)
(* rendered string.                                                        *)
(***************************************************************************)
RECURSIVE Join(_, _)
Join(strs, sep) ==
    IF strs = <<>> THEN ""
    ELSE IF Len(strs) = 1 THEN strs[1]
    ELSE strs[1] \o sep \o Join(Tail(strs), sep)

\* The text of a YAML string as the document wrote it.
TokenText(tok) ==
    IF tok.t = "txt" THEN tok.s ELSE "{{ " \o Join(tok.path, ".") \o " }}"

RawText(value) == Join([i \in DOMAIN value.parts |-> TokenText(value.parts[i])], "")

RECURSIVE SetToSeq(_)
SetToSeq(S) ==
    IF S = {} THEN <<>>
    ELSE LET x == CHOOSE y \in S : TRUE IN <<x>> \o SetToSeq(S \ {x})

RECURSIVE PyRepr(_)
PyRepr(v) ==
    CASE v.k = "int"  -> ToString(v.n)
      [] v.k = "none" -> "None"
      [] v.k = "str"  -> "'" \o v.s \o "'"
      [] v.k = "tmpl" -> "'" \o RawText(v) \o "'"
      [] v.k = "list" -> "[" \o Join([i \in DOMAIN v.items |-> PyRepr(v.items[i])], ", ") \o "]"
      [] v.k = "dict" ->
            LET keys == SetToSeq(DOMAIN v.d)
            IN  "{" \o Join([i \in DOMAIN keys |->
                              "'" \o keys[i] \o "': " \o PyRepr(v.d[keys[i]])], ", ") \o "}"

PyStr(v) == IF v.k = "str" THEN v.s ELSE PyRepr(v)

(***************************************************************************)
(* Node.render_params.                                                     *)
(***************************************************************************)
\* The context: every recorded output under its node's name, then
\* context.update(flow.variables), so a variable hides a node of its name.
Context(outs, store) ==
    [n \in DOMAIN outs \cup DOMAIN store |->
        IF n \in DOMAIN store THEN store[n] ELSE VDict(outs[n])]

Failed == [ok |-> FALSE]
Ok(v)  == [ok |-> TRUE, v |-> v]

RECURSIVE WalkParts(_, _)
\* The loop over var_parts of a whole-value reference, below the context:
\* obj[part] on a dict, getattr(obj, part) on anything else.
WalkParts(obj, parts) ==
    IF parts = <<>> THEN Ok(obj)
    ELSE IF obj.k = "dict"
    THEN IF Head(parts) \in DOMAIN obj.d
         THEN WalkParts(obj.d[Head(parts)], Tail(parts))
         ELSE Failed                                    \* KeyError
    ELSE Failed                                         \* AttributeError

\* Mutant of RenderSimple: the value found is written out as text.
RenderSimpleAsText(path, context) ==
    IF Head(path) \in DOMAIN context
    THEN LET r == WalkParts(context[Head(path)], Tail(path))
         IN  IF r.ok THEN Ok(VStr(PyStr(r.v))) ELSE Failed
    ELSE Failed

\* A parameter that is exactly one reference.
RenderSimple(path, context) ==
    IF Head(path) \in DOMAIN context
    THEN WalkParts(context[Head(path)], Tail(path))
    ELSE Failed                                         \* KeyError

Undef == [k |-> "undefined"]

RECURSIVE JinjaGetAttr(_, _)
\* jinja2's Environment.getattr along a dotted path: a missing key gives
\* Undefined, and an attribute of Undefined raises UndefinedError.
JinjaGetAttr(obj, parts) ==
    IF parts = <<>> THEN Ok(obj)
    ELSE IF obj.k = "undefined" THEN Failed             \* UndefinedError
    ELSE IF obj.k = "dict" /\ Head(parts) \in DOMAIN obj.d
    THEN JinjaGetAttr(obj.d[Head(parts)], Tail(parts))
    ELSE JinjaGetAttr(Undef, Tail(parts))

\* One "{{ ref }}" of a template: the text jinja2 writes for it.
JinjaRef(path, context) ==
    LET start == IF Head(path) \in DOMAIN context THEN context[Head(path)] ELSE Undef
        r == JinjaGetAttr(start, Tail(path))
    IN  IF ~r.ok THEN Failed
        ELSE IF r.v.k = "undefined" THEN Ok("")
        ELSE Ok(PyStr(r.v))

\* env.from_string(value).render(**context)
RenderTemplate(value, context) ==
    LET piece(i) == IF value.parts[i].t = "txt" THEN Ok(value.parts[i].s)
                    ELSE JinjaRef(value.parts[i].path, context)
    IN  IF \E i \in DOMAIN value.parts : ~piece(i).ok THEN Failed
        ELSE Ok(VStr(Join([i \in DOMAIN value.parts |-> piece(i).v], "")))

IsSimpleReference(value) ==
    value.k = "tmpl" /\ Len(value.parts) = 1 /\ value.parts[1].t = "ref"

\* One parameter of render_params.
RenderValue(value, context) ==
    IF value.k = "tmpl"
    THEN IF IsSimpleReference(value)
         THEN RenderSimple(value.parts[1].path, context)
         ELSE RenderTemplate(value, context)
    ELSE Ok(value)

\* render_params: [ok, v |-> rendered params by key]
RenderParams(node, outs, store) ==
    LET context == Context(outs, store)
        r(i) == RenderValue(node.params[i].val, context)
    IN  IF \E i \in DOMAIN node.params : ~r(i).ok THEN Failed
        ELSE Ok([key \in {node.params[i].key : i \in DOMAIN node.params} |->
                    r(CHOOSE i \in DOMAIN node.params : node.params[i].key = key).v])

(***************************************************************************)
(* Node.execute.  ret is what the outside world answers when the node      *)
(* calls it: [kind |-> "raise"], [kind |-> "value", v |-> object returned],*)
(* or for the completion service [kind |-> "content" | "tool_call", v].    *)
(* The result is [ok, out |-> outputs dict, store |-> variable store].     *)
(***************************************************************************)
Raised(store)      == [ok |-> FALSE, out |-> EmptyMap, store |-> store]
Returned(out, store) == [ok |-> TRUE, out |-> out, store |-> store]

\* execute_function_call
ExecuteFunctionCall(node, params, ret, store) ==
    IF ret.kind # "value" THEN Raised(store)
    ELSE IF ret.v.k # "dict" THEN Raised(store)
    ELSE IF Range(node.outputs) # DOMAIN ret.v.d THEN Raised(store)
    ELSE Returned(ret.v.d, store)

\* execute_llm_service and execute_openai_service
ExecuteLlmService(node, params, ret, store) ==
    IF node.service # "openai" THEN Raised(store)       \* NotImplementedError
    ELSE IF "prompt" \notin DOMAIN params THEN Raised(store)
    ELSE IF ret.kind = "tool_call" /\ node.function_call
    THEN IF node.outputs = <<>> THEN Raised(store)       \* IndexError
         ELSE Returned((node.outputs[1] :> ret.v), store)
    ELSE IF ret.kind \in {"content", "tool_call"}
    THEN IF Len(node.outputs) # 1 THEN Raised(store)
         ELSE Returned((node.outputs[1] :> ret.v), store)
    ELSE Raised(store)

\* execute_set_variable
ExecuteSetVariable(node, params, store) ==
    IF "value" \notin DOMAIN params THEN Raised(store)  \* KeyError
    ELSE Returned(EmptyMap, Put(store, node.variable_name, params["value"]))

\* Mutant of StoreGet: a name that is absent reads as 0.
StoreGetDefault(store, name) == IF name \in DOMAIN store THEN store[name] ELSE YInt(0)

\* dict.get(name): None when the name is absent.
StoreGet(store, name) == IF name \in DOMAIN store THEN store[name] ELSE YNone

\* execute_get_variable
ExecuteGetVariable(node, store) ==
    LET value == StoreGet(store, node.variable_name)
        output_name == IF node.outputs # <<>> THEN node.outputs[1] ELSE "value"
    IN  IF value.k = "none" THEN Raised(store)
        ELSE Returned((output_name :> value), store)

\* execute_get_variables
ExecuteGetVariables(node, store) ==
    IF \E i \in DOMAIN node.variables : StoreGet(store, node.variables[i].val).k = "none"
    THEN Raised(store)
    ELSE Returned([o \in {node.variables[i].key : i \in DOMAIN node.variables} |->
                     StoreGet(store, Lookup(node.variables, o))], store)

\* execute
Execute(node, params, ret, store) ==
    CASE node.type = "function_call" -> ExecuteFunctionCall(node, params, ret, store)
      [] node.type = "llm_service"   -> ExecuteLlmService(node, params, ret, store)
      [] node.type = "set_variable"  -> ExecuteSetVariable(node, params, store)
      [] node.type = "get_variable"  -> ExecuteGetVariable(node, store)
      [] node.type = "get_variables" -> ExecuteGetVariables(node, store)
      [] OTHER -> Raised(store)                         \* NotImplementedError

\* Mutant of OutputsMatch: whatever a node returned is accepted.
OutputsMatchAlways(node, out) == TRUE

\* The output check of run(): the keys returned are the node's declared outputs.
OutputsMatch(node, out) == Range(node.outputs) = DOMAIN out

(***************************************************************************)
(* The outside world: what a function of the functions module, or the      *)
(* completion service, may answer when a node calls it.                    *)
(***************************************************************************)
RetValues == {YInt(5), YNone}

\* A mapping that lacks a declared output, and one with a key too many.
ShortDict(outs) ==
    IF outs # <<>> THEN [o \in Range(outs) \ {outs[1]} |-> YInt(5)]
    ELSE ("extra" :> YInt(5))

LongDict(outs) == [o \in Range(outs) \cup {"extra"} |-> YInt(5)]

EnvReturns(node) ==
    CASE node.type = "function_call" ->
            {[kind |-> "raise"], [kind |-> "value", v |-> YInt(5)],
             [kind |-> "value", v |-> VDict(ShortDict(node.outputs))],
             [kind |-> "value", v |-> VDict(LongDict(node.outputs))]}
            \cup {[kind |-> "value", v |-> VDict([o \in Range(node.outputs) |-> rv])] :
                    rv \in RetValues}
      [] node.type = "llm_service" ->
            {[kind |-> "raise"], [kind |-> "content", v |-> VStr("text")]}
            \cup (IF node.function_call
                  THEN {[kind |-> "tool_call", v |-> VDict(("arg" :> YInt(5)))]}
                  ELSE {})
      [] OTHER -> {[kind |-> "none"]}

(***************************************************************************)
(* The root documents the model composes and runs: every list of at most   *)
(* MaxNodes node descriptions drawn from a set of descriptions.            *)
(***************************************************************************)
FlatDescriptions ==
    { FunctionCall("A", <<>>, <<"result">>),
      FunctionCall("B", <<KV("x", Whole(<<"A", "result">>))>>, <<"out">>),
      FunctionCall("A", <<KV("x", Whole(<<"B", "out">>))>>, <<"result">>),
      FunctionCall("C", <<KV("x", Whole(<<"C", "out">>))>>, <<"out">>),
      SetVariable("X", "limit", YInt(10), <<>>),
      SetVariable("X", "limit", Whole(<<"A", "result">>), <<>>),
      GetVariable("Y", "limit", <<"value">>),
      FunctionCall("D", <<KV("x", Whole(<<"limit">>))>>, <<"out">>),
      FunctionCall("V", <<KV("msg", Tmpl(<<Txt("r="), Ref(<<"A", "result">>)>>))>>, <<"out">>),
      FunctionCall("W", <<KV("msg", Tmpl(<<Txt("n="), Ref(<<"limit">>)>>))>>, <<"out">>),
      WithDependencies(FunctionCall("E", <<>>, <<"out">>), <<"A">>),
      SetVariable("Z", "limit", YInt(7), <<>>) }

NestedDescriptions ==
    { FunctionCall("A", <<>>, <<"result">>),
      YmlFlow("S", "inner.yml", <<KV("q", Whole(<<"A", "result">>))>>, <<"r">>),
      YmlFlow("T", "outer.yml", <<KV("p", Whole(<<"A", "result">>))>>, <<"o">>),
      YmlFlow("L", "list.yml", <<>>, <<>>),
      YmlFlow("M", "mid.yml", <<>>, <<>>),
      FunctionCall("b", <<>>, <<"out">>),
      FunctionCall("d", <<>>, <<"out">>),
      FunctionCall("S__store", <<>>, <<"out">>),
      FunctionCall("S__inject_param_q", <<>>, <<"out">>),
      FunctionCall("U", <<KV("x", Whole(<<"S", "r">>))>>, <<"out">>) }

\* Steps that read the outputs of function A in every way a param can name
\* them, and a function F with two declared outputs.
ResolveDescriptions ==
    { FunctionCall("A", <<>>, <<"result">>),
      FunctionCall("F", <<>>, <<"a", "b">>),
      FunctionCall("B", <<KV("x", Whole(<<"A", "result">>))>>, <<"out">>),
      FunctionCall("G", <<KV("x", Whole(<<"A">>)),
                          KV("msg", Tmpl(<<Txt("r="), Ref(<<"A">>)>>))>>, <<"out">>),
      FunctionCall("K", <<KV("xs", YList(<<Whole(<<"A", "result">>)>>))>>, <<"out">>),
      FunctionCall("N", <<KV("x", Whole(<<"A", "nope">>))>>, <<"out">>),
      FunctionCall("P", <<KV("msg", Tmpl(<<Txt("r="), Ref(<<"A", "nope">>)>>))>>, <<"out">>),
      FunctionCall("H", <<KV("x", Whole(<<"F", "b">>))>>, <<"out">>) }

\* One step of every type the engine executes: a function, the variable
\* steps around the variable limit, a set-variable step that declares an
\* output, and service calls with and without the tool protocol declaring
\* no, one and two outputs.
Prompt == <<KV("prompt", Tmpl(<<Txt("hi")>>))>>

TypedDescriptions ==
    { FunctionCall("A", <<>>, <<"result">>),
      SetVariable("X", "limit", YInt(10), <<>>),
      SetVariable("X", "limit", Whole(<<"A", "result">>), <<>>),
      SetVariable("XO", "flag", YInt(1), <<"o">>),
      GetVariable("Y", "limit", <<"value">>),
      GetVariables("R", <<KV("v", "limit")>>, <<"v">>),
      LlmService("Q0", Prompt, <<>>, FALSE),
      LlmService("Q1", Prompt, <<"text">>, FALSE),
      LlmService("Q2", Prompt, <<"text", "more">>, FALSE),
      LlmService("T0", Prompt, <<>>, TRUE),
      LlmService("T1", Prompt, <<"args">>, TRUE),
      LlmService("T2", Prompt, <<"args", "more">>, TRUE) }

\* A variable written and read, and a function with a reader of its output.
RerunDescriptions ==
    { FunctionCall("A", <<>>, <<"result">>),
      FunctionCall("B", <<KV("x", Whole(<<"A", "result">>))>>, <<"out">>),
      SetVariable("X", "limit", YInt(10), <<>>),
      GetVariable("Y", "limit", <<"value">>) }

\* Root documents with the defects a flow tree can have, at the root and
\* inside the files the root calls, next to sound steps.
BrokenDescriptions ==
    { FunctionCall("A", <<>>, <<"result">>),
      FunctionCall("", <<>>, <<"out">>),
      FunctionCall("S__store", <<>>, <<"out">>),
      YmlFlow("S", "inner.yml", <<KV("q", Whole(<<"A", "result">>))>>, <<"r">>),
      YmlFlow("S", "", <<>>, <<>>),
      YmlFlow("S", "missing.yml", <<>>, <<>>),
      YmlFlow("Bd", "bad.yml", <<>>, <<>>),
      YmlFlow("Tw", "twice.yml", <<>>, <<>>),
      YmlFlow("Nf", "nofile.yml", <<>>, <<>>),
      YmlFlow("Gn", "gone.yml", <<>>, <<>>),
      YmlFlow("Lp", "loop.yml", <<>>, <<>>),
      YmlFlow("Pp", "ping.yml", <<>>, <<>>) }

\* A function step named A next to a variable named A, and the steps that
\* name A in a param.
ClashDescriptions ==
    { FunctionCall("A", <<>>, <<"result">>),
      SetVariable("X", "A", YInt(10), <<>>),
      SetVariable("X", "other", Whole(<<"A", "result">>), <<>>),
      FunctionCall("D", <<KV("x", Whole(<<"A">>))>>, <<"out">>),
      FunctionCall("B", <<KV("x", Whole(<<"A", "result">>))>>, <<"out">>) }

\* The variable steps: limit set to 10 or from an output that step N does
\* not have, nothing set to null, and the single and batch readers of both,
\* with and without declared outputs.
VariableDescriptions ==
    { SetVariable("X", "limit", YInt(10), <<>>),
      SetVariable("X", "limit", Whole(<<"N", "gone">>), <<>>),
      SetVariable("N", "nothing", YNone, <<>>),
      GetVariable("Y", "limit", <<>>),
      GetVariable("YN", "nothing", <<"value">>),
      GetVariables("R", <<KV("v", "limit"), KV("w", "nothing")>>, <<"v", "w">>),
      GetVariables("R1", <<KV("v", "limit")>>, <<"v">>),
      GetVariables("R2", <<KV("v", "limit")>>, <<"v", "extra">>) }

\* The types Node.execute has a branch for.
StepKinds == {"function_call", "llm_service", "set_variable", "get_variable", "get_variables"}

\* Steps of a type that Node.execute has no branch for, with and without a
\* declared output, next to steps that read them and steps that do not.
UnknownDescriptions ==
    { NodeData("U", "transform", <<>>, <<>>),
      NodeData("U", "transform", <<KV("x", Whole(<<"A", "result">>))>>, <<"out">>),
      FunctionCall("A", <<>>, <<"result">>),
      FunctionCall("V", <<KV("x", Whole(<<"U", "out">>))>>, <<"out">>),
      SetVariable("X", "limit", YInt(10), <<>>),
      GetVariable("Y", "limit", <<"value">>) }

Documents(descriptions) == UNION {[1..n -> descriptions] : n \in 0..MaxNodes}

(***************************************************************************)
(* The legacy executor, AgenticFlow (AgenticFlow.py).  Its YAML document   *)
(* maps node names to details; an entry is [name, executor, dependencies]. *)
(* The object is the record agentic: node_classes, the graph (its nodes in *)
(* insertion order and its edges) and results are its fields; nodes is the *)
(* document, sorted_nodes and i the list and the position of the loop of   *)
(* execute(), called the nodes run_node was called for, and invoked how    *)
(* the executor of each node that reached it ended.                        *)
(***************************************************************************)
AgenticNode(name, executor, dependencies) ==
    [name |-> name, executor |-> executor, dependencies |-> dependencies]

\* The executor names that is_url accepts, and the keys of available_classes.
Urls == {"http://tool"}

AvailableClasses == {"Worker"}

\* The "type" load_graph_from_yaml stores for an executor name; "" when it
\* raises "Executor ... not found".
ExecutorType(executor_name) ==
    IF executor_name \in Urls THEN "url"
    ELSE IF executor_name \in {"openai", "sql_executor", "pandas_executor"}
    THEN executor_name
    ELSE IF executor_name \in AvailableClasses THEN "class"
    ELSE ""

\* nx.DiGraph.add_edge(u, v): both ends become nodes of the graph if they
\* are not yet, u first.
AddEdge(flow, u, v) ==
    LET with_u == IF u \in Range(flow.graph_nodes) THEN flow.graph_nodes
                  ELSE Append(flow.graph_nodes, u)
        with_v == IF v \in Range(with_u) THEN with_u ELSE Append(with_u, v)
    IN  [flow EXCEPT !.graph_nodes = with_v, !.graph_edges = @ \cup {<<u, v>>}]

RECURSIVE AddDependencies(_, _, _, _)
\* "for dependency in dependencies: self.graph.add_edge(dependency, node)"
AddDependencies(flow, node, dependencies, j) ==
    IF j > Len(dependencies) THEN flow
    ELSE AddDependencies(AddEdge(flow, dependencies[j], node), node, dependencies, j + 1)

RECURSIVE LoadGraphFromYaml(_, _)
\* load_graph_from_yaml from the i-th entry of the document on.  A node
\* enters the graph only as an end of an edge.
LoadGraphFromYaml(flow, i) ==
    IF i > Len(flow.nodes) THEN [flow EXCEPT !.phase = "Loaded"]
    ELSE LET details == flow.nodes[i]
         IN  IF ExecutorType(details.executor) = ""
             THEN [flow EXCEPT !.phase = "LoadFailed"]
             ELSE LoadGraphFromYaml(
                     AddDependencies(
                        [flow EXCEPT !.node_classes =
                            Put(@, details.name, ExecutorType(details.executor))],
                        details.name, details.dependencies, 1),
                     i + 1)

\* list(nx.topological_sort(self.graph)): the nodes without predecessors
\* in the graph's node order, the children of a node in the order their
\* edges were added, which is the document's order of the consumers.
AgenticTopologicalSort(flow) ==
    LET indegree_map == [n \in Range(flow.graph_nodes) |-> InDegree(n, flow.graph_edges)]
        IsZero(n) == indegree_map[n] = 0
        consumers == [i \in DOMAIN flow.nodes |-> flow.nodes[i].name]
    IN  TopologicalGenerations(SelectSeq(flow.graph_nodes, IsZero), indegree_map, <<>>,
                               consumers, flow.graph_edges)

Predecessors(flow, node) == {e[1] : e \in {d \in flow.graph_edges : d[2] = node}}

\* Mutant of InputsCollected: a missing result of a predecessor is passed over.
InputsCollectedAlways(flow, node) == TRUE

\* "inputs = [self.results[predecessor] for predecessor in predecessors]"
\* raises KeyError unless every predecessor has a result.
InputsCollected(flow, node) == Predecessors(flow, node) \subseteq DOMAIN flow.results

\* run_node reaches the call of an executor: the inputs were collected, the
\* node has an entry in node_classes, and its type has a branch.
ReachesExecutor(flow, node) ==
    /\ InputsCollected(flow, node)
    /\ node \in DOMAIN flow.node_classes
    /\ flow.node_classes[node] \in {"class", "sql_executor", "pandas_executor", "openai"}

\* The result an executor returns.
AgenticResult == YInt(5)

NoAgenticFlow ==
    [phase |-> "None", nodes |-> <<>>, node_classes |-> EmptyMap,
     graph_nodes |-> <<>>, graph_edges |-> {}, results |-> EmptyMap,
     sorted_nodes |-> <<>>, i |-> 1, called |-> <<>>, invoked |-> EmptyMap]

\* Documents of the legacy executor: chains, a node depending on two, a
\* node that stands alone, a URL executor, a dependency the document does
\* not define, and an executor that is not known.
AgenticDescriptions ==
    { AgenticNode("a", "Worker", <<>>),
      AgenticNode("a", "Worker", <<"b">>),
      AgenticNode("b", "openai", <<>>),
      AgenticNode("b", "Worker", <<"a">>),
      AgenticNode("c", "Worker", <<>>),
      AgenticNode("c", "Worker", <<"a", "b">>),
      AgenticNode("d", "http://tool", <<"a">>),
      AgenticNode("e", "Worker", <<"z">>),
      AgenticNode("f", "nope", <<>>) }

\* A YAML mapping has each key once.
AgenticDocuments ==
    {doc \in Documents(AgenticDescriptions) :
        \A i, j \in DOMAIN doc : i # j => doc[i].name # doc[j].name}

(***************************************************************************)
(* The state machine: compose(), then parse_yaml(), then run() node by     *)
(* node.                                                                   *)
(***************************************************************************)
\* No call was made for the node: its params did not resolve, or no
\* iteration has run yet.
NoAnswer(node_name) == [node |-> node_name, ret |-> [kind |-> "none"]]

InitWith(descriptions) ==
    /\ phase = "Composing"
    /\ root \in Documents(descriptions)
    /\ combined = <<>>
    /\ node_name_set = {}
    /\ error = ""
    /\ nodes = <<>>
    /\ variable_producers = EmptyMap
    /\ edges = {}
    /\ execution_order = <<>>
    /\ pc = 1
    /\ outputs = EmptyMap
    /\ variables = EmptyMap
    /\ attempted = <<>>
    /\ status = EmptyMap
    /\ dispatched = EmptyMap
    /\ returned = NoAnswer("")
    /\ runs = 0
    /\ agentic = NoAgenticFlow

Init == InitWith(FlatDescriptions)

InitNested == InitWith(NestedDescriptions)

InitResolve == InitWith(ResolveDescriptions)

InitTypes == InitWith(TypedDescriptions)

InitRerun == InitWith(RerunDescriptions)

InitBroken == InitWith(BrokenDescriptions)

InitClash == InitWith(ClashDescriptions)

InitVariables == InitWith(VariableDescriptions)

InitUnknown == InitWith(UnknownDescriptions)

\* An AgenticFlow about to be constructed on a document; no composer and no
\* GenFlow take part.
InitAgentic ==
    /\ phase = "Idle"
    /\ root = <<>>
    /\ combined = <<>>
    /\ node_name_set = {}
    /\ error = ""
    /\ nodes = <<>>
    /\ variable_producers = EmptyMap
    /\ edges = {}
    /\ execution_order = <<>>
    /\ pc = 1
    /\ outputs = EmptyMap
    /\ variables = EmptyMap
    /\ attempted = <<>>
    /\ status = EmptyMap
    /\ dispatched = EmptyMap
    /\ returned = NoAnswer("")
    /\ runs = 0
    /\ \E doc \in AgenticDocuments :
          agentic = [NoAgenticFlow EXCEPT !.phase = "New", !.nodes = doc]

\* YmlCompose(root).compose()
Compose ==
    /\ phase = "Composing"
    /\ LET r == ComposeResult(root)
       IN  /\ combined' = r.nodes
           /\ node_name_set' = r.names
           /\ error' = r.err
           /\ phase' = IF r.err # "" THEN "ComposeFailed" ELSE "GraphBuilding"
    /\ UNCHANGED <<root, nodes, variable_producers, edges, execution_order, pc,
                   outputs, variables, attempted, status, dispatched, returned, runs,
                   agentic>>

\* compose() called again on the same YmlCompose, after the first call
\* returned: _process_yaml_file starts from the combined_data and the
\* node_name_set the first call left in the object.
ComposeAgain ==
    /\ phase = "GraphBuilding"
    /\ LET r == ProcessYamlFile(root, RootFile, "",
                                [nodes |-> combined, names |-> node_name_set, err |-> ""], 1)
       IN  /\ combined' = r.nodes
           /\ node_name_set' = r.names
           /\ error' = r.err
           /\ phase' = "Recomposed"
    /\ UNCHANGED <<root, nodes, variable_producers, edges, execution_order, pc,
                   outputs, variables, attempted, status, dispatched, returned, runs,
                   agentic>>

\* GenFlow(combined).parse_yaml()
Parse ==
    /\ phase = "GraphBuilding"
    /\ LET g == ParseYaml(combined)
       IN  /\ nodes' = g.nodes
           /\ variable_producers' = g.variable_producers
           /\ edges' = g.edges
           /\ error' = g.err
           /\ phase' = IF g.err # "" THEN "GraphFailed" ELSE "Ready"
    /\ UNCHANGED <<root, combined, node_name_set, execution_order, pc,
                   outputs, variables, attempted, status, dispatched, returned, runs,
                   agentic>>

\* run(), up to the loop: the execution order, or the exception of a cyclic
\* graph.  run() assigns neither self.outputs nor self.variables: both are
\* the dicts __init__ created.  The histories start again with each call.
StartRun ==
    /\ LET t == TopologicalSort([i \in DOMAIN nodes |-> nodes[i].name], edges)
       IN  IF t.unfeasible
           THEN /\ phase' = "RunFailed"
                /\ error' = "Graph has cycles, cannot proceed."
                /\ UNCHANGED <<execution_order, pc>>
           ELSE /\ execution_order' = t.order
                /\ pc' = 1
                /\ phase' = IF t.order = <<>> THEN "Completed" ELSE "Running"
                /\ error' = error
    /\ runs' = runs + 1
    /\ attempted' = <<>>
    /\ status' = EmptyMap
    /\ dispatched' = EmptyMap
    /\ returned' = NoAnswer("")
    /\ UNCHANGED <<root, combined, node_name_set, nodes, variable_producers, edges,
                   outputs, variables, agentic>>

\* The first call of run(), after parse_yaml().
Run ==
    /\ phase = "Ready"
    /\ StartRun

\* A further call of run() on the same GenFlow, after the earlier one returned.
RunAgain ==
    /\ phase = "Completed"
    /\ runs < MaxRuns
    /\ StartRun

NodeNamed(ns, name) == ns[CHOOSE i \in DOMAIN ns : ns[i].name = name]

\* What run() hands to its caller: it has no return statement, and what it
\* catches it logs and drops.
RunReturns == YNone

\* Mutant of AfterNode: a failed node ends the run.
AfterNodeAbort(i, order, ok) ==
    IF ~ok THEN "Aborted" ELSE IF i >= Len(order) THEN "Completed" ELSE "Running"

\* "continue": whatever happened to the i-th node, the loop goes on to the
\* next one, and run() returns after the last.
AfterNode(i, order, ok) == IF i >= Len(order) THEN "Completed" ELSE "Running"

\* Mutant of SaveOutputs: the outputs are recorded whatever happened.
SaveOutputsAlways(outs, node_name, out, ok) == Put(outs, node_name, out)

\* "self.outputs[node_name] = outputs", reached only when nothing was raised.
SaveOutputs(outs, node_name, out, ok) == IF ok THEN Put(outs, node_name, out) ELSE outs

\* One iteration of the loop of run().
RunNode ==
    /\ phase = "Running"
    /\ LET node_name == execution_order[pc]
           node == NodeNamed(nodes, node_name)
           r == RenderParams(node, outputs, variables)
       IN  /\ attempted' = Append(attempted, node_name)
           /\ pc' = pc + 1
           /\ IF ~r.ok
              THEN /\ status' = Put(status, node_name, "ResolutionFailed")
                   /\ outputs' = SaveOutputs(outputs, node_name, EmptyMap, FALSE)
                   /\ phase' = AfterNode(pc, execution_order, FALSE)
                   /\ returned' = NoAnswer(node_name)
                   /\ UNCHANGED <<variables, dispatched>>
              ELSE \E ret \in EnvReturns(node) :
                     LET x == Execute(node, r.v, ret, variables)
                         ok == x.ok /\ OutputsMatch(node, x.out)
                     IN  /\ dispatched' = Put(dispatched, node_name, r.v)
                         /\ returned' = [node |-> node_name, ret |-> ret]
                         /\ variables' = x.store
                         /\ outputs' = SaveOutputs(outputs, node_name, x.out, ok)
                         /\ status' = Put(status, node_name,
                                          IF ok THEN "Executed" ELSE "ExecutionFailed")
                         /\ phase' = AfterNode(pc, execution_order, ok)
    /\ UNCHANGED <<root, combined, node_name_set, error, nodes, variable_producers,
                   edges, execution_order, runs, agentic>>

Next == Compose \/ Parse \/ Run \/ RunNode

\* AgenticFlow(yaml_file_path, ...): __init__ loads the graph.
AgenticConstruct ==
    /\ agentic.phase = "New"
    /\ agentic' = LoadGraphFromYaml(agentic, 1)
    /\ UNCHANGED engine

\* execute(), up to its loop.
AgenticExecute ==
    /\ agentic.phase = "Loaded"
    /\ LET t == AgenticTopologicalSort(agentic)
       IN  agentic' =
             IF t.unfeasible THEN [agentic EXCEPT !.phase = "Cyclic"]
             ELSE [agentic EXCEPT !.sorted_nodes = t.order, !.i = 1,
                                  !.phase = IF t.order = <<>> THEN "Done" ELSE "Executing"]
    /\ UNCHANGED engine

\* One iteration of the loop of execute(): run_node(node) inside try/except.
AgenticRunNode ==
    /\ agentic.phase = "Executing"
    /\ LET node == agentic.sorted_nodes[agentic.i]
           after == [agentic EXCEPT
                        !.called = Append(@, node),
                        !.i = @ + 1,
                        !.phase = IF agentic.i >= Len(agentic.sorted_nodes)
                                  THEN "Done" ELSE "Executing"]
       IN  IF ~ReachesExecutor(agentic, node)
           THEN agentic' = after
           ELSE \/ agentic' = [after EXCEPT !.invoked = Put(@, node, "raised")]
                \/ agentic' = [after EXCEPT !.invoked = Put(@, node, "returned"),
                                            !.results = Put(@, node, AgenticResult)]
    /\ UNCHANGED engine

NextAgentic == AgenticConstruct \/ AgenticExecute \/ AgenticRunNode

SpecAgentic == InitAgentic /\ [][NextAgentic]_vars

Spec == Init /\ [][Next]_vars

SpecNested == InitNested /\ [][Next]_vars

SpecResolve == InitResolve /\ [][Next]_vars

SpecTypes == InitTypes /\ [][Next]_vars

SpecBroken == InitBroken /\ [][Next]_vars

SpecClash == InitClash /\ [][Next]_vars

SpecVariables == InitVariables /\ [][Next]_vars

SpecUnknown == InitUnknown /\ [][Next]_vars

\* The composer used for a second compose() before the flow is parsed.
NextRecompose == Next \/ ComposeAgain

SpecRecompose == InitNested /\ [][NextRecompose]_vars

\* run() is a for loop over a finite list, on one thread: once it is called
\* its next iteration is taken, as long as every call a node makes returns or
\* raises.
SpecFair == InitRerun /\ [][Next]_vars /\ WF_vars(RunNode)

\* One GenFlow whose run() is called up to MaxRuns times.
NextRerun == Next \/ RunAgain

SpecRerun == InitRerun /\ [][NextRerun]_vars

(***************************************************************************)
(* Vocabulary of the properties.                                           *)
(***************************************************************************)
\* compose() returned a list.
Composed == phase \notin {"Composing", "ComposeFailed"}

\* parse_yaml() returned: the graph is built and acyclic.
GraphBuilt == phase \in {"Ready", "Running", "Completed"}

Succeeded(n) == n \in DOMAIN status /\ status[n] = "Executed"

FailedStep(n) == n \in DOMAIN status /\ status[n] # "Executed"

\* a was attempted, and before b was.
AttemptedBefore(a, b) ==
    /\ a \in Range(attempted)
    /\ b \in Range(attempted) => IndexOf(attempted, a) < IndexOf(attempted, b)

Position(ns, name) == CHOOSE i \in DOMAIN ns : ns[i].name = name

RECURSIVE TransitiveClosure(_)
TransitiveClosure(E) ==
    LET E2 == E \cup {<<a[1], b[2]>> : <<a, b>> \in {p \in E \X E : p[1][2] = p[2][1]}}
    IN  IF E2 = E THEN E ELSE TransitiveClosure(E2)

HasCycle(E) == \E e \in TransitiveClosure(E) : e[1] = e[2]

\* The dependency graph of a parsed step list, when every dependency names a
\* step or a produced variable.
AllDefined(ns, producers) ==
    \A i \in DOMAIN ns : \A dep \in GetDependencies(ns[i]) : ~Undefined(dep, ns, producers)

DependencyEdges(ns, producers) ==
    UNION {{EdgeFor(dep, ns[i], ns, producers) : dep \in GetDependencies(ns[i])} :
            i \in DOMAIN ns}

\* Every node of the composed list was parsed without a duplicate.
ParsedWhole ==
    /\ phase \in {"GraphFailed", "Ready", "Running", "Completed", "RunFailed"}
    /\ Len(nodes) = Len(combined)
    /\ error \notin {"Duplicate node name", "Variable is set by multiple nodes",
                      "KeyError variable_name"}

RECURSIVE VisitedFrom(_, _, _, _)
\* Every node description the composer meets, with the prefix it meets it
\* under: [prefix, node].  Meaningful once compose() has succeeded.
VisitedFrom(rootDoc, yaml_file, parent_prefix, i) ==
    IF i > Len(FileNodes(rootDoc, yaml_file)) THEN {}
    ELSE LET nd == FileNodes(rootDoc, yaml_file)[i]
         IN  {[prefix |-> parent_prefix, node |-> nd]}
             \cup (IF nd.type = "yml_flow"
                   THEN VisitedFrom(rootDoc, nd.yml_file, parent_prefix \o nd.name \o "__", 1)
                   ELSE {})
             \cup VisitedFrom(rootDoc, yaml_file, parent_prefix, i + 1)

Visited == VisitedFrom(root, RootFile, "", 1)

\* The sub-flow calls and the ordinary nodes among them.
Calls == {m \in Visited : m.node.type = "yml_flow"}

Ordinary == {m \in Visited : m.node.type # "yml_flow"}

RECURSIVE RelativeNames(_, _, _)
\* The names the nodes of a document get, relative to the document's prefix.
RelativeNames(rootDoc, yaml_file, i) ==
    IF i > Len(FileNodes(rootDoc, yaml_file)) THEN {}
    ELSE LET nd == FileNodes(rootDoc, yaml_file)[i]
         IN  {nd.name}
             \cup (IF nd.type = "yml_flow"
                   THEN {nd.name \o "__" \o x : x \in RelativeNames(rootDoc, nd.yml_file, 1)}
                        \cup {nd.name \o "__inject_param_" \o nd.params[k].key :
                                k \in DOMAIN nd.params}
                   ELSE {})
             \cup RelativeNames(rootDoc, yaml_file, i + 1)

RECURSIVE FlatSize(_, _, _)
\* The number of nodes a document contributes to the flattened list.
FlatSize(rootDoc, yaml_file, i) ==
    IF i > Len(FileNodes(rootDoc, yaml_file)) THEN 0
    ELSE LET nd == FileNodes(rootDoc, yaml_file)[i]
         IN  (IF nd.type = "yml_flow"
              THEN FlatSize(rootDoc, nd.yml_file, 1) + Len(nd.params) + 1
              ELSE 1)
             + FlatSize(rootDoc, yaml_file, i + 1)

\* A YAML string with every reference moved under a prefix.
RECURSIVE Prefixed(_, _)
Prefixed(value, prefix) ==
    CASE value.k = "tmpl" ->
            Tmpl([i \in DOMAIN value.parts |->
                    IF value.parts[i].t = "ref"
                    THEN Ref(<<prefix \o Head(value.parts[i].path)>> \o Tail(value.parts[i].path))
                    ELSE value.parts[i]])
      [] value.k = "list" ->
            YList([i \in DOMAIN value.items |-> Prefixed(value.items[i], prefix)])
      [] OTHER -> value

(***************************************************************************)
(* C1.  For every acyclic flattened step list, run attempts every step     *)
(* exactly once, and a step only after every one of its graph predecessors *)
(* has been attempted (succeeded or failed).                               *)
(***************************************************************************)
C1_EveryStepOnceAfterPredecessors ==
    phase \in {"Running", "Completed"} =>
        /\ NoDup(attempted)
        /\ Range(attempted) \subseteq NodeNames(nodes)
        /\ \A e \in edges : e[2] \in Range(attempted) => AttemptedBefore(e[1], e[2])
        /\ phase = "Completed" => Range(attempted) = NodeNames(nodes)

\* A finished run in which a consumer was declared before its producer and a
\* predecessor failed.
C1_Witness ==
    /\ phase = "Completed"
    /\ \E e \in edges :
          /\ Position(nodes, e[2]) < Position(nodes, e[1])
          /\ FailedStep(e[1])
          /\ e[2] \in Range(attempted)

(***************************************************************************)
(* C2.  If the dependency graph of the step list has a cycle (A and B      *)
(* referencing each other, or a step referencing itself), graph building   *)
(* fails with the cycle error before any step executes: the outputs map    *)
(* and the variable store are still empty.                                 *)
(***************************************************************************)
C2_CycleAbortsBeforeExecution ==
    (/\ ParsedWhole
     /\ AllDefined(nodes, variable_producers)
     /\ HasCycle(DependencyEdges(nodes, variable_producers)))
    => /\ phase = "GraphFailed"
       /\ error = "The execution graph has cycles"
       /\ outputs = EmptyMap
       /\ variables = EmptyMap
       /\ attempted = <<>>

\* A rejected list holding both a two-step cycle and a self-reference.
C2_Witness ==
    /\ phase = "GraphFailed"
    /\ error = "The execution graph has cycles"
    /\ {<<"A", "B">>, <<"B", "A">>, <<"C", "C">>} \subseteq edges

(***************************************************************************)
(* C3.  For every get-variable step Y whose variable is set by a           *)
(* set-variable step X, the graph has the edge X -> Y, so Y is attempted   *)
(* after X whatever their declaration order, and Outputs[Y] holds the      *)
(* value X stored.  (Stated for a stored value other than None.)           *)
(***************************************************************************)
C3_GetVariableOrderedAfterSetter ==
    GraphBuilt =>
        \A i, j \in DOMAIN nodes :
            (/\ nodes[i].type = "set_variable"
             /\ nodes[j].type = "get_variable"
             /\ nodes[i].variable_name = nodes[j].variable_name)
            => LET X == nodes[i]
                   Y == nodes[j]
               IN  /\ <<X.name, Y.name>> \in edges
                   /\ Y.name \in Range(attempted) => AttemptedBefore(X.name, Y.name)
                   /\ (/\ phase = "Completed"
                       /\ Succeeded(X.name)
                       /\ variables[X.variable_name].k # "none"
                       /\ Len(Y.outputs) = 1)
                      => /\ Y.name \in DOMAIN outputs
                         /\ outputs[Y.name] = (Y.outputs[1] :> variables[X.variable_name])

(***************************************************************************)
(* C4.  A step that depends, through a reference in its params, on a       *)
(* failed step (on the failed step's output, or on a variable the failed   *)
(* step should have set) fails at parameter resolution and records no      *)
(* outputs; it is never dispatched.                                        *)
(***************************************************************************)
ReferencesOf(node) ==
    UNION {ExtractDependenciesFromValue(node.params[i].val) : i \in DOMAIN node.params}

RefersToFailedStep(node) ==
    \E dep \in ReferencesOf(node) :
        \/ dep \in NodeNames(nodes) /\ FailedStep(dep)
        \/ /\ dep \notin NodeNames(nodes)
           /\ dep \in DOMAIN variable_producers
           /\ FailedStep(variable_producers[dep])

C4_DependentOfFailedStepFailsAtResolution ==
    \A i \in DOMAIN nodes :
        (nodes[i].name \in DOMAIN status /\ RefersToFailedStep(nodes[i]))
        => /\ status[nodes[i].name] = "ResolutionFailed"
           /\ nodes[i].name \notin DOMAIN outputs
           /\ nodes[i].name \notin DOMAIN dispatched

(***************************************************************************)
(* C5.  When a step's parameter resolution or dispatch fails, no entry for *)
(* it is recorded in the outputs map and the run goes on with the          *)
(* remaining steps in order: a step's failure never aborts the run.        *)
(***************************************************************************)
C5_FailureIsScopedToOneStep ==
    /\ \A n \in DOMAIN status : status[n] # "Executed" => n \notin DOMAIN outputs
    /\ attempted # <<>> => phase \in {"Running", "Completed"}
    /\ phase = "Running" =>
          pc <= Len(execution_order) /\ attempted = SubSeq(execution_order, 1, pc - 1)
    /\ phase = "Completed" => attempted = execution_order

\* A finished run: a dispatch failure, then a resolution failure, then a
\* step that executed.
C5_Witness ==
    /\ phase = "Completed"
    /\ \E i, j, k \in DOMAIN attempted :
          /\ i < j /\ j < k
          /\ status[attempted[i]] = "ExecutionFailed"
          /\ status[attempted[j]] = "ResolutionFailed"
          /\ status[attempted[k]] = "Executed"
          /\ attempted[k] \in DOMAIN outputs

(***************************************************************************)
(* C6.  After a successful composition all step names of the flattened     *)
(* list are pairwise distinct (body, injection and extraction steps, at    *)
(* every nesting level); a collision makes composition fail.               *)
(***************************************************************************)
C6_FlattenedNamesDistinct ==
    Composed =>
        /\ NoDup([i \in DOMAIN combined |-> combined[i].name])
        /\ NodeNames(combined) = node_name_set

\* A composed list with body, injection and extraction steps of two levels.
C6_Witness ==
    /\ Composed
    /\ {"T__b", "T__in__store", "T__in__inject_param_q", "T__in",
        "T__inject_param_p", "T"} \subseteq NodeNames(combined)

C8_InjectionRefersToCallerLevel ==
    Composed =>
        \A c \in Calls : \A k \in DOMAIN c.node.params :
            \E i \in DOMAIN combined :
                /\ combined[i].name =
                      c.prefix \o c.node.name \o "__inject_param_" \o c.node.params[k].key
                /\ combined[i].params =
                      <<KV("value", Prefixed(c.node.params[k].val, c.prefix))>>

(***************************************************************************)
(* C9.  For every sub-flow call S the composer emits one get_variables     *)
(* step named S, and after a run in which the sub-flow body set each       *)
(* declared output variable, Outputs[S] maps every declared output name to *)
(* the value stored for it.                                                *)
(***************************************************************************)
C9_ExtractionExposesSubFlowOutputs ==
    /\ Composed =>
          \A c \in Calls :
              Cardinality({i \in DOMAIN combined :
                             /\ combined[i].name = c.prefix \o c.node.name
                             /\ combined[i].type = "get_variables"}) = 1
    /\ phase = "Completed" =>
          \A c \in Calls :
              LET S == c.prefix \o c.node.name
                  var(o) == S \o "__" \o o
              IN  (\A o \in Range(c.node.outputs) : var(o) \in DOMAIN variables)
                  => /\ S \in DOMAIN outputs
                     /\ outputs[S] = [o \in Range(c.node.outputs) |-> variables[var(o)]]

(***************************************************************************)
(* C10.  When an ordinary step is flattened under a prefix, every          *)
(* reference inside its params carries that prefix afterwards, references  *)
(* inside nested sequences included, and so does the variable-name field   *)
(* of a set or get step.                                                   *)
(***************************************************************************)
C10_EveryReferenceCarriesPrefix ==
    Composed =>
        \A m \in Ordinary :
            \E i \in DOMAIN combined :
                /\ combined[i].name = m.prefix \o m.node.name
                /\ combined[i].params =
                      [k \in DOMAIN m.node.params |->
                          KV(m.node.params[k].key, Prefixed(m.node.params[k].val, m.prefix))]
                /\ m.node.type \in {"set_variable", "get_variable"} =>
                      combined[i].variable_name = m.prefix \o m.node.variable_name

(***************************************************************************)
(* C11.  When an ordinary step is flattened under a prefix, a reference    *)
(* that points outside the step's nesting level and already carries the    *)
(* full name an ancestor level gave its target (the name is allocated, and *)
(* the name with the current prefix in front is not) is left as it is: the *)
(* current prefix is not put in front of it.                               *)
(***************************************************************************)
RefPaths(value) ==
    IF value.k = "tmpl"
    THEN {value.parts[i].path : i \in {j \in DOMAIN value.parts : value.parts[j].t = "ref"}}
    ELSE {}

PointsOutside(path, prefix) ==
    /\ prefix # ""
    /\ Head(path) \in node_name_set
    /\ (prefix \o Head(path)) \notin node_name_set

C11_OuterReferenceLeftAsIs ==
    Composed =>
        \A m \in Ordinary : \A k \in DOMAIN m.node.params :
            \A path \in RefPaths(m.node.params[k].val) :
                PointsOutside(path, m.prefix)
                => \E i \in DOMAIN combined :
                      /\ combined[i].name = m.prefix \o m.node.name
                      /\ path \in RefPaths(combined[i].params[k].val)

(***************************************************************************)
(* C12.  A step that lists step D in its `dependencies`, without naming D  *)
(* in its params, has the graph edge D -> step and is attempted after D.   *)
(***************************************************************************)
C12_ExplicitDependencyBecomesEdge ==
    GraphBuilt =>
        \A i \in DOMAIN nodes : \A D \in Range(nodes[i].dependencies) :
            (D \in NodeNames(nodes) /\ D \notin ReferencesOf(nodes[i]))
            => /\ <<D, nodes[i].name>> \in edges
               /\ nodes[i].name \in Range(attempted)
                     => AttemptedBefore(D, nodes[i].name)

(***************************************************************************)
(* C13.  If some reference in the params of a step has a first segment     *)
(* that names neither a step nor a variable produced by a set-variable     *)
(* step, graph building fails with the undefined-reference error before    *)
(* any step executes.                                                      *)
(***************************************************************************)
UndefinedReferences(ns, producers) ==
    {dep \in UNION {ReferencesOf(ns[i]) : i \in DOMAIN ns} :
        dep \notin NodeNames(ns) /\ dep \notin DOMAIN producers}

C13_UndefinedReferenceAbortsBeforeExecution ==
    (ParsedWhole /\ UndefinedReferences(nodes, variable_producers) # {})
    => /\ phase = "GraphFailed"
       /\ error = "depends on undefined node or variable"
       /\ outputs = EmptyMap
       /\ variables = EmptyMap
       /\ attempted = <<>>

\* A rejected list of several steps, one of which names a variable no step
\* sets and another a step that is not in the list.
C13_Witness ==
    /\ phase = "GraphFailed"
    /\ error = "depends on undefined node or variable"
    /\ Len(nodes) > 2
    /\ {"limit", "A"} \subseteq UndefinedReferences(nodes, variable_producers)

(***************************************************************************)
(* C14.  A step list in which two set-variable steps target the same       *)
(* variable name is rejected while the graph is built, before any step     *)
(* executes: in every step list that reaches execution each variable name  *)
(* has at most one producing step.                                         *)
(***************************************************************************)
Producers(ns, var) ==
    {i \in DOMAIN ns : ns[i].type = "set_variable" /\ ns[i].variable_name = var}

VariableNames(ns) ==
    {ns[i].variable_name : i \in {j \in DOMAIN ns : ns[j].type = "set_variable"}}

C14_OneProducerPerVariable ==
    /\ (/\ phase \notin {"Composing", "ComposeFailed", "GraphBuilding"}
        /\ \E var \in VariableNames(combined) : Cardinality(Producers(combined, var)) > 1)
       => /\ phase = "GraphFailed"
          /\ outputs = EmptyMap
          /\ variables = EmptyMap
          /\ attempted = <<>>
    /\ phase \in {"Ready", "Running", "Completed"} =>
          /\ \A var \in VariableNames(nodes) : Cardinality(Producers(nodes, var)) = 1
          /\ \A var \in DOMAIN variables : Cardinality(Producers(nodes, var)) = 1

\* A list rejected for two differently named steps that set the same
\* variable, with a third step reading it.
C14_Witness ==
    /\ phase = "GraphFailed"
    /\ error = "Variable is set by multiple nodes"
    /\ \E i, j \in DOMAIN combined :
          /\ i # j
          /\ combined[i].name # combined[j].name
          /\ combined[i].type = "set_variable" /\ combined[j].type = "set_variable"
          /\ combined[i].variable_name = combined[j].variable_name
    /\ \E k \in DOMAIN combined : combined[k].type = "get_variable"

(***************************************************************************)
(* C15.  A function-call step records outputs only when the mapping its    *)
(* function returned has exactly the step's declared outputs as its keys,  *)
(* and then records that mapping; on a missing or an extra key (or a       *)
(* result that is no mapping) the step is failed and has no entry in the   *)
(* outputs map.                                                            *)
(***************************************************************************)
KeysMatch(node, ret) ==
    ret.v.k = "dict" /\ DOMAIN ret.v.d = Range(node.outputs)

C15_FunctionOutputContract ==
    /\ \A n \in DOMAIN outputs :
          NodeNamed(nodes, n).type = "function_call"
          => DOMAIN outputs[n] = Range(NodeNamed(nodes, n).outputs)
    /\ \A i \in DOMAIN nodes :
          (/\ nodes[i].type = "function_call"
           /\ returned.node = nodes[i].name
           /\ returned.ret.kind = "value")
          => IF KeysMatch(nodes[i], returned.ret)
             THEN /\ Succeeded(nodes[i].name)
                  /\ nodes[i].name \in DOMAIN outputs
                  /\ outputs[nodes[i].name] = returned.ret.v.d
             ELSE /\ status[nodes[i].name] = "ExecutionFailed"
                  /\ nodes[i].name \notin DOMAIN outputs

\* F declares [a, b] and its function returned a mapping with b alone, after
\* another step had recorded its outputs.
C15_Witness ==
    /\ returned.node = "F"
    /\ returned.ret.kind = "value"
    /\ returned.ret.v.k = "dict"
    /\ DOMAIN returned.ret.v.d = {"b"}
    /\ "F" \notin DOMAIN outputs
    /\ outputs # EmptyMap

(***************************************************************************)
(* C16.  A param whose value is exactly one reference reaches the step as  *)
(* the referenced value itself, with its type: the integer 5 as the        *)
(* integer 5, a mapping as a mapping, never as their text.                 *)
(***************************************************************************)
RECURSIVE Descend(_, _)
\* The value a dotted path leads to inside a value.
Descend(value, fields) ==
    IF fields = <<>> THEN value ELSE Descend(value.d[Head(fields)], Tail(fields))

\* The value a reference names: a variable of the store, or the outputs a
\* step recorded.
Referenced(path) ==
    Descend(IF Head(path) \in DOMAIN variables THEN variables[Head(path)]
            ELSE VDict(outputs[Head(path)]),
            Tail(path))

C16_WholeReferenceKeepsType ==
    \A n \in DOMAIN dispatched :
        LET params == NodeNamed(nodes, n).params
        IN  \A i \in DOMAIN params :
                IsSimpleReference(params[i].val)
                => dispatched[n][params[i].key] = Referenced(params[i].val.parts[1].path)

\* B received the integer 5 that A returned, and G received A's outputs as a
\* mapping.
C16_Witness ==
    /\ {"B", "G"} \subseteq DOMAIN dispatched
    /\ dispatched["B"]["x"] = YInt(5)
    /\ dispatched["G"]["x"] = VDict(("result" :> YInt(5)))

(***************************************************************************)
(* C17.  A param that is a sequence is resolved element by element: every  *)
(* element that is a reference has been replaced by the referenced value   *)
(* when the step is dispatched, and the sequence keeps its length.         *)
(***************************************************************************)
RECURSIVE Reaches(_, _)
Reaches(value, fields) ==
    \/ fields = <<>>
    \/ /\ value.k = "dict"
       /\ Head(fields) \in DOMAIN value.d
       /\ Reaches(value.d[Head(fields)], Tail(fields))

\* The reference names something the run has recorded.
Resolvable(path) ==
    /\ Head(path) \in DOMAIN variables \cup DOMAIN outputs
    /\ Reaches(IF Head(path) \in DOMAIN variables THEN variables[Head(path)]
               ELSE VDict(outputs[Head(path)]),
               Tail(path))

C17_SequencesResolvedElementWise ==
    \A n \in DOMAIN dispatched :
        LET params == NodeNamed(nodes, n).params
        IN  \A i \in DOMAIN params :
                params[i].val.k = "list"
                => LET given == params[i].val.items
                       got == dispatched[n][params[i].key]
                   IN  /\ got.k = "list"
                       /\ Len(got.items) = Len(given)
                       /\ \A j \in DOMAIN given :
                             IsSimpleReference(given[j])
                             => /\ Resolvable(given[j].parts[1].path)
                                /\ got.items[j] = Referenced(given[j].parts[1].path)

(***************************************************************************)
(* C18.  A reference whose dotted path names a field that the resolved     *)
(* value lacks makes the resolution of the step fail, whether the          *)
(* reference is the whole param value or stands inside text: a step        *)
(* holding such a reference to the recorded outputs of another step ends   *)
(* with a resolution failure and is not dispatched.                        *)
(***************************************************************************)
FieldMissing(path) ==
    /\ Len(path) > 1
    /\ Head(path) \notin DOMAIN variables
    /\ Head(path) \in DOMAIN outputs
    /\ path[2] \notin DOMAIN outputs[Head(path)]

C18_MissingFieldFailsResolution ==
    \A n \in DOMAIN status :
        LET params == NodeNamed(nodes, n).params
        IN  (\E i \in DOMAIN params : \E path \in RefPaths(params[i].val) :
                FieldMissing(path))
            => /\ status[n] = "ResolutionFailed"
               /\ n \notin DOMAIN dispatched

(***************************************************************************)
(* C19.  A reference inside surrounding text needs a value that can be     *)
(* written as text: when the referenced value is a structured one (a       *)
(* mapping or a sequence) the resolution of the step fails, and the step   *)
(* is not dispatched with a string form of the value.                      *)
(***************************************************************************)
EmbeddedPaths(value) ==
    IF value.k = "tmpl" /\ ~IsSimpleReference(value) THEN RefPaths(value) ELSE {}

Structured(path) ==
    /\ Head(path) \in DOMAIN variables \cup DOMAIN outputs
    /\ \/ Len(path) = 1 /\ Head(path) \notin DOMAIN variables
       \/ /\ Len(path) = 1
          /\ Head(path) \in DOMAIN variables
          /\ variables[Head(path)].k \in {"dict", "list"}
       \/ /\ Len(path) = 2
          /\ Head(path) \notin DOMAIN variables
          /\ path[2] \in DOMAIN outputs[Head(path)]
          /\ outputs[Head(path)][path[2]].k \in {"dict", "list"}

C19_EmbeddedReferenceNeedsText ==
    \A n \in DOMAIN status :
        LET params == NodeNamed(nodes, n).params
        IN  (\E i \in DOMAIN params : \E path \in EmbeddedPaths(params[i].val) :
                Structured(path))
            => /\ status[n] = "ResolutionFailed"
               /\ n \notin DOMAIN dispatched

(***************************************************************************)
(* C20.  The steps run in the topological order that breaks ties by        *)
(* declaration order: each step attempted is, among the steps not yet      *)
(* attempted whose predecessors have all been attempted, the one declared  *)
(* first.                                                                  *)
(***************************************************************************)
Eligible(done) ==
    {n \in NodeNames(nodes) \ done : \A e \in edges : e[2] = n => e[1] \in done}

C20_TiesBrokenByDeclarationOrder ==
    phase \in {"Running", "Completed"} =>
        \A k \in DOMAIN attempted :
            \A n \in Eligible({attempted[j] : j \in 1..(k - 1)}) :
                Position(nodes, attempted[k]) <= Position(nodes, n)

(***************************************************************************)
(* C21.  The variable store and the outputs map are created at the start   *)
(* of a run and discarded at its end: when a later run of the same engine  *)
(* instance starts, nothing written by an earlier run is in either.        *)
(***************************************************************************)
C21_StoresAreFreshInEveryRun ==
    (runs > 1 /\ attempted = <<>>) => (outputs = EmptyMap /\ variables = EmptyMap)

(***************************************************************************)
(* C22.  A get-variable or get-variables step that executes while a        *)
(* variable it reads has never been set fails (variable not found) and     *)
(* records no outputs.                                                     *)
(***************************************************************************)
VariablesRead(node) ==
    CASE node.type = "get_variable" -> {node.variable_name}
      [] node.type = "get_variables" -> {node.variables[i].val : i \in DOMAIN node.variables}
      [] OTHER -> {}

\* The node of the latest iteration; a get step leaves the store as it
\* found it, so the store of this state is the store the step read.
JustRan(node) == returned.node = node.name

C22_UnsetVariableFailsTheReader ==
    \A i \in DOMAIN nodes :
        (/\ nodes[i].type \in {"get_variable", "get_variables"}
         /\ JustRan(nodes[i])
         /\ \E v \in VariablesRead(nodes[i]) : v \notin DOMAIN variables)
        => /\ status[nodes[i].name] = "ExecutionFailed"
           /\ nodes[i].name \notin DOMAIN outputs

\* The get-variables step R ran after the setter of its variable had failed
\* to resolve its value.
C22_Witness ==
    /\ returned.node = "R"
    /\ "limit" \notin DOMAIN variables
    /\ FailedStep("X")
    /\ FailedStep("R")

(***************************************************************************)
(* C23.  Composition fails, handing no flattened list to the engine, so    *)
(* that no graph is built and no step executes, whenever a step at any     *)
(* nesting level has no name, a sub-flow step has no yml_file field or     *)
(* names a file that does not exist, or a name is allocated twice.         *)
(***************************************************************************)
RECURSIVE TreeDefect(_, _, _)
\* A nameless step, or a sub-flow step without a file or with a file that
\* does not exist, in a document or in a document it calls.
TreeDefect(rootDoc, yaml_file, depth) ==
    /\ depth <= MaxDepth
    /\ \E i \in DOMAIN FileNodes(rootDoc, yaml_file) :
          LET nd == FileNodes(rootDoc, yaml_file)[i]
          IN  \/ nd.name = ""
              \/ /\ nd.type = "yml_flow"
                 /\ \/ nd.yml_file = ""
                    \/ ~FileExists(rootDoc, nd.yml_file)
                    \/ TreeDefect(rootDoc, nd.yml_file, depth + 1)

RECURSIVE Allocated(_, _, _, _, _)
\* The names the steps of a document are given, in order, with the names
\* of the injection steps of its sub-flow calls.
Allocated(rootDoc, yaml_file, parent_prefix, i, depth) ==
    IF depth > MaxDepth \/ i > Len(FileNodes(rootDoc, yaml_file)) THEN <<>>
    ELSE LET nd == FileNodes(rootDoc, yaml_file)[i]
             own == parent_prefix \o nd.name
         IN  <<own>>
             \o (IF nd.type = "yml_flow" /\ nd.yml_file # ""
                     /\ FileExists(rootDoc, nd.yml_file)
                  THEN Allocated(rootDoc, nd.yml_file, own \o "__", 1, depth + 1)
                       \o [k \in DOMAIN nd.params |->
                              own \o "__inject_param_" \o nd.params[k].key]
                  ELSE <<>>)
             \o Allocated(rootDoc, yaml_file, parent_prefix, i + 1, depth)

Defective(rootDoc) ==
    \/ TreeDefect(rootDoc, RootFile, 1)
    \/ ~NoDup(Allocated(rootDoc, RootFile, "", 1, 1))

C23_DefectFailsComposition ==
    (phase # "Composing" /\ Defective(root))
    => /\ phase = "ComposeFailed"
       /\ error # ""
       /\ nodes = <<>>
       /\ edges = {}
       /\ attempted = <<>>
       /\ outputs = EmptyMap
       /\ variables = EmptyMap

\* Composition failed on a nameless step inside a called file, after steps
\* of the root and of that file had been taken.
C23_Witness ==
    /\ phase = "ComposeFailed"
    /\ error = "A node without a name"
    /\ {"A", "Bd__k"} \subseteq NodeNames(combined)

(***************************************************************************)
(* C24.  A flow that includes itself, directly or through other files, is  *)
(* detected: its composition ends with a composition error, not by         *)
(* running into the limit of the recursion.                                *)
(***************************************************************************)
RECURSIVE IncludesItself(_, _, _)
\* Some chain of sub-flow calls from the document comes back to a file
\* already on the chain.
IncludesItself(rootDoc, yaml_file, chain) ==
    \/ yaml_file \in chain
    \/ \E i \in DOMAIN FileNodes(rootDoc, yaml_file) :
          LET nd == FileNodes(rootDoc, yaml_file)[i]
          IN  /\ nd.type = "yml_flow"
              /\ nd.yml_file # ""
              /\ FileExists(rootDoc, nd.yml_file)
              /\ IncludesItself(rootDoc, nd.yml_file, chain \cup {yaml_file})

C24_SelfInclusionIsReported ==
    (phase # "Composing" /\ IncludesItself(root, RootFile, {}))
    => /\ phase = "ComposeFailed"
       /\ error # "RecursionError"

(***************************************************************************)
(* C25.  Once run() has been called on an acyclic step list, the run       *)
(* eventually reaches Completed, whichever steps fail at resolution or at  *)
(* dispatch, and then every step has been attempted exactly once.          *)
(***************************************************************************)
RunCompleted ==
    /\ phase = "Completed"
    /\ NoDup(attempted)
    /\ Range(attempted) = NodeNames(nodes)
    /\ Len(attempted) = Len(nodes)

C25_RunReachesCompleted == (runs = 1) ~> RunCompleted

\* A completed run of three steps in which one failed at dispatch and
\* another at resolution.
C25_Witness ==
    /\ RunCompleted
    /\ Len(nodes) = 3
    /\ \E a, b \in DOMAIN status :
          status[a] = "ExecutionFailed" /\ status[b] = "ResolutionFailed"

(***************************************************************************)
(* C26.  A completed run hands its caller a status report next to the      *)
(* outputs map: a mapping with one entry for every step, which says        *)
(* failed exactly for the steps whose resolution or dispatch failed.       *)
(***************************************************************************)
C26_RunReportsStatusOfEveryStep ==
    phase = "Completed" =>
        /\ RunReturns.k = "dict"
        /\ DOMAIN RunReturns.d = NodeNames(nodes)
        /\ \A n \in NodeNames(nodes) :
              RunReturns.d[n] = VStr("failed") <=> FailedStep(n)

(***************************************************************************)
(* C27.  After composition no step of type yml_flow is left in the         *)
(* flattened list, at whatever depth it was written, so none is parsed or  *)
(* handed to execute(): in place of each stands a get_variables step of    *)
(* its name.                                                               *)
(***************************************************************************)
C27_NoSubFlowStepIsLeft ==
    /\ Composed =>
          /\ \A i \in DOMAIN combined : combined[i].type # "yml_flow"
          /\ \A c \in Calls : \E i \in DOMAIN combined :
                /\ combined[i].name = c.prefix \o c.node.name
                /\ combined[i].type = "get_variables"
    /\ \A i \in DOMAIN nodes : nodes[i].type # "yml_flow"
    /\ \A n \in Range(attempted) : NodeNamed(nodes, n).type # "yml_flow"

\* A completed run of a list composed from a sub-flow call that itself
\* holds a sub-flow call.
C27_Witness ==
    /\ phase = "Completed"
    /\ \E c \in Calls : c.prefix # ""
    /\ {"T", "T__in"} \subseteq Range(attempted)

(***************************************************************************)
(* C28.  A service-call step whose call was answered succeeds exactly when *)
(* it declares one output: the text of a plain completion, or the          *)
(* structured arguments of a tool call, is then the value of that output.  *)
(* With no declared output or more than one the step fails and records     *)
(* nothing.                                                                *)
(***************************************************************************)
C28_ServiceCallHasOneOutput ==
    /\ \A n \in DOMAIN outputs :
          NodeNamed(nodes, n).type = "llm_service" => Len(NodeNamed(nodes, n).outputs) = 1
    /\ \A i \in DOMAIN nodes :
          (/\ nodes[i].type = "llm_service"
           /\ JustRan(nodes[i])
           /\ returned.ret.kind \in {"content", "tool_call"})
          => IF Len(nodes[i].outputs) = 1
             THEN /\ Succeeded(nodes[i].name)
                  /\ nodes[i].name \in DOMAIN outputs
                  /\ outputs[nodes[i].name] = (nodes[i].outputs[1] :> returned.ret.v)
             ELSE /\ status[nodes[i].name] = "ExecutionFailed"
                  /\ nodes[i].name \notin DOMAIN outputs

\* A plain completion and a tool call recorded as the one output of their
\* steps, and then a tool call answered for a step declaring two outputs.
C28_Witness ==
    /\ {"Q1", "T1"} \subseteq DOMAIN outputs
    /\ outputs["Q1"] = ("text" :> VStr("text"))
    /\ outputs["T1"] = ("args" :> VDict(("arg" :> YInt(5))))
    /\ returned = [node |-> "T2", ret |-> [kind |-> "tool_call", v |-> VDict(("arg" :> YInt(5)))]]
    /\ "T2" \notin DOMAIN outputs

(***************************************************************************)
(* C29.  Whatever the type of the step, an entry of the outputs map has    *)
(* exactly the step's declared outputs as its keys, and no step of run()   *)
(* changes or removes an entry that is already there.                      *)
(***************************************************************************)
EntriesHaveDeclaredKeys ==
    \A n \in DOMAIN outputs : DOMAIN outputs[n] = Range(NodeNamed(nodes, n).outputs)

EntriesKept ==
    \A n \in DOMAIN outputs : n \in DOMAIN outputs' /\ outputs'[n] = outputs[n]

C29_EntriesMatchAndStay == [](EntriesHaveDeclaredKeys) /\ [][EntriesKept]_vars

\* A run that wrote the entries of a function step, a variable step and a
\* service-call step.
C29_Witness ==
    /\ phase = "Completed"
    /\ DOMAIN outputs = {"A", "X", "Q1"}
    /\ outputs["X"] = EmptyMap
    /\ DOMAIN outputs["A"] = {"result"}
    /\ DOMAIN outputs["Q1"] = {"text"}

(***************************************************************************)
(* C30.  A step that ends up failed has left the variable store as it was: *)
(* the variable of a failed set-variable step, which no other step of the  *)
(* flow may produce, is not in the store.                                  *)
(***************************************************************************)
C30_FailedStepWritesNoVariable ==
    \A i \in DOMAIN nodes :
        (nodes[i].type = "set_variable" /\ FailedStep(nodes[i].name))
        => nodes[i].variable_name \notin DOMAIN variables

(***************************************************************************)
(* C31.  When the first segment of a reference names a step and also a     *)
(* variable, the dependency edge and the substituted value have the same   *)
(* source: build_graph draws the edge from the step, so the value the      *)
(* consumer is dispatched with is the one the step's outputs hold.         *)
(***************************************************************************)
Ambiguous(name) == name \in NodeNames(nodes) /\ name \in DOMAIN variable_producers

C31_EdgeSourceIsValueSource ==
    \A n \in DOMAIN dispatched :
        LET params == NodeNamed(nodes, n).params
        IN  \A i \in DOMAIN params :
                (/\ IsSimpleReference(params[i].val)
                 /\ Ambiguous(Head(params[i].val.parts[1].path)))
                => LET path == params[i].val.parts[1].path
                   IN  /\ <<Head(path), n>> \in edges
                       /\ Head(path) \in DOMAIN outputs
                       /\ Reaches(VDict(outputs[Head(path)]), Tail(path))
                       /\ dispatched[n][params[i].key]
                            = Descend(VDict(outputs[Head(path)]), Tail(path))

(***************************************************************************)
(* C32.  A get-variable step that declares no outputs and reads a variable *)
(* holding a value succeeds, and its entry in the outputs map is the       *)
(* stored value under the name value.                                      *)
(***************************************************************************)
C32_DefaultOutputNameIsRecorded ==
    \A i \in DOMAIN nodes :
        (/\ nodes[i].type = "get_variable"
         /\ nodes[i].outputs = <<>>
         /\ JustRan(nodes[i])
         /\ nodes[i].variable_name \in DOMAIN variables
         /\ variables[nodes[i].variable_name] # YNone)
        => /\ Succeeded(nodes[i].name)
           /\ nodes[i].name \in DOMAIN outputs
           /\ outputs[nodes[i].name] = ("value" :> variables[nodes[i].variable_name])

(***************************************************************************)
(* C33.  A variable that a set-variable step has set can be read whatever  *)
(* was stored, the null value included: a get-variable or get-variables    *)
(* step whose variables are all in the store does not fail for want of a   *)
(* variable, so with matching declared outputs it succeeds.                *)
(***************************************************************************)
C33_StoredNullCanBeRead ==
    \A i \in DOMAIN nodes :
        (/\ nodes[i].type \in {"get_variable", "get_variables"}
         /\ JustRan(nodes[i])
         /\ VariablesRead(nodes[i]) \subseteq DOMAIN variables
         /\ nodes[i].outputs # <<>>
         /\ nodes[i].type = "get_variables"
              => Range(nodes[i].outputs) = {nodes[i].variables[j].key : j \in DOMAIN nodes[i].variables})
        => Succeeded(nodes[i].name)

(***************************************************************************)
(* C34.  A get-variables step runs after the set-variable step of every    *)
(* variable of its mapping; it succeeds exactly when all those variables   *)
(* are in the store and the keys of the mapping are its declared outputs,  *)
(* and it then records one output per entry of the mapping.                *)
(***************************************************************************)
MappingKeys(node) == {node.variables[j].key : j \in DOMAIN node.variables}

C34_BatchReadContract ==
    \A i \in DOMAIN nodes :
        (nodes[i].type = "get_variables" /\ JustRan(nodes[i]))
        => /\ \A v \in VariablesRead(nodes[i]) :
                 /\ v \in DOMAIN variable_producers
                 /\ AttemptedBefore(variable_producers[v], nodes[i].name)
           /\ Succeeded(nodes[i].name)
                <=> /\ VariablesRead(nodes[i]) \subseteq DOMAIN variables
                    /\ MappingKeys(nodes[i]) = Range(nodes[i].outputs)
           /\ Succeeded(nodes[i].name)
                => /\ nodes[i].name \in DOMAIN outputs
                   /\ outputs[nodes[i].name]
                        = [o \in MappingKeys(nodes[i]) |->
                             variables[Lookup(nodes[i].variables, o)]]

(***************************************************************************)
(* C35.  Composition is repeatable: a second compose() on the same         *)
(* composer, the documents unchanged, reports no error and returns the     *)
(* step list a fresh composition of the root document gives.               *)
(***************************************************************************)
C35_CompositionIsRepeatable ==
    phase = "Recomposed"
    => /\ error = ""
       /\ combined = ComposeResult(root).nodes

(***************************************************************************)
(* C36.  A step of a type outside the step kinds fails when it is          *)
(* dispatched, like any failing step: it records no outputs, the run goes  *)
(* on, and a finished run has dispatched every step that names no other    *)
(* step or variable in its params.                                         *)
(***************************************************************************)
UnknownKind(node) == node.type \notin StepKinds

C36_UnknownTypeFailsAlone ==
    (\E i \in DOMAIN nodes : UnknownKind(nodes[i]) /\ nodes[i].name \in Range(attempted))
    => /\ \A i \in DOMAIN nodes :
             (UnknownKind(nodes[i]) /\ nodes[i].name \in Range(attempted))
             => /\ FailedStep(nodes[i].name)
                /\ nodes[i].name \notin DOMAIN outputs
       /\ phase \in {"Running", "Completed"}
       /\ phase = "Running" => pc = Len(attempted) + 1
       /\ phase = "Completed"
            => /\ Range(attempted) = NodeNames(nodes)
               /\ \A i \in DOMAIN nodes :
                     ReferencesOf(nodes[i]) = {} => nodes[i].name \in DOMAIN dispatched

\* The step of unknown type failed first, and the function and the variable
\* steps after it were executed.
C36_Witness ==
    /\ phase = "Completed"
    /\ attempted = <<"U", "X", "Y">>
    /\ status = ("U" :> "ExecutionFailed") @@ ("X" :> "Executed") @@ ("Y" :> "Executed")
    /\ DOMAIN outputs = {"X", "Y"}

(***************************************************************************)
(* C37.  The legacy executor's execute() runs every node the YAML document *)
(* defines exactly once, in topological order, a node without              *)
(* dependencies and without dependents included.                           *)
(***************************************************************************)
TimesCalled(name) == Cardinality({k \in DOMAIN agentic.called : agentic.called[k] = name})

C37_EveryDefinedNodeRunsOnce ==
    agentic.phase = "Done"
    => /\ \A k \in DOMAIN agentic.nodes : TimesCalled(agentic.nodes[k].name) = 1
       /\ \A e \in agentic.graph_edges :
             IndexOf(agentic.called, e[1]) < IndexOf(agentic.called, e[2])

(***************************************************************************)
(* C38.  In the legacy executor results has an entry for a node only if    *)
(* the node's executor returned; a node with a predecessor that has no     *)
(* entry in results does not invoke its executor; and execute() goes on to *)
(* every remaining node of its order whatever failed.                      *)
(***************************************************************************)
C38_ResultsOnlyFromCompletedExecutors ==
    /\ \A n \in DOMAIN agentic.results :
          n \in DOMAIN agentic.invoked /\ agentic.invoked[n] = "returned"
    /\ \A n \in Range(agentic.called) :
          (\E p \in Predecessors(agentic, n) : p \notin DOMAIN agentic.results)
          => n \notin DOMAIN agentic.invoked
    /\ agentic.phase = "Executing" => agentic.i = Len(agentic.called) + 1
    /\ agentic.phase = "Done" => agentic.called = agentic.sorted_nodes
    /\ agentic.phase \in {"Executing", "Done"}
         => /\ Range(agentic.sorted_nodes) = Range(agentic.graph_nodes)
            /\ NoDup(agentic.sorted_nodes)

\* The executor of a raised, b was called after it and did not invoke its
\* own, and c, which needs both, was still called.
C38_Witness ==
    /\ agentic.phase = "Done"
    /\ agentic.called = <<"a", "b", "c">>
    /\ agentic.invoked = ("a" :> "raised")
    /\ agentic.results = EmptyMap

====
